---- MODULE Spec2Model ----
(***************************************************************************)
(* A model of the ts-fp value types: Failure and Option (failure.ts) and    *)
(* the Result class.  JavaScript values are tagged records; objects live in a heap    *)
(* and are referred to by index, so that `===` on references is equality   *)
(* of indices.                                                             *)
(***************************************************************************)
EXTENDS Integers, Sequences, FiniteSets, TLC

VARIABLES heap, results, options, pairs, states, steps, last, pending

vars == <<heap, results, options, pairs, states, steps, last, pending>>

\* Bounds of the model: objects on the heap, Result objects, and Failures the
\* caller creates before it builds a Result.
MaxHeap == 5
MaxResults == 3
MaxHeld == 1
MaxObjects == 4
MaxSetup == 2
MaxOptions == 3
MaxPairs == 2
MaxStates == 2

(***************************************************************************)
(* JavaScript values.                                                      *)
(***************************************************************************)
Undefined == [t |-> "undefined", n |-> 0, s |-> ""]
Null == [t |-> "null", n |-> 0, s |-> ""]
Num(k) == [t |-> "number", n |-> k, s |-> ""]
Str(x) == [t |-> "string", n |-> 0, s |-> x]
Bool(b) == [t |-> "boolean", n |-> IF b THEN 1 ELSE 0, s |-> ""]
Ref(i) == [t |-> "object", n |-> i, s |-> ""]

\* ToBoolean, as used by `!x`, `x ? a : b`, `a || b` and `a && b`.
Truthy(v) ==
    CASE v.t = "undefined" -> FALSE
      [] v.t = "null" -> FALSE
      [] v.t = "number" -> v.n # 0
      [] v.t = "string" -> v.s # ""
      [] v.t = "boolean" -> v.n = 1
      [] OTHER -> TRUE

IsWhitespace(c) == c \in {" ", "\t", "\n"}

RECURSIVE TrimStart(_)
TrimStart(s) ==
    IF Len(s) = 0 THEN s
    ELSE IF IsWhitespace(Head(s)) THEN TrimStart(Tail(s)) ELSE s

RECURSIVE TrimEnd(_)
TrimEnd(s) ==
    IF Len(s) = 0 THEN s
    ELSE IF IsWhitespace(SubSeq(s, Len(s), Len(s)))
         THEN TrimEnd(SubSeq(s, 1, Len(s) - 1)) ELSE s

\* String.prototype.trim
Trim(s) == TrimEnd(TrimStart(s))

(***************************************************************************)
(* The heap of objects: plain objects, Errors, Failures and subclasses.    *)
(***************************************************************************)
\* the subclasses whose constructor is constructor(message) { super(message); }
SimpleTaxonomy ==
    {"ApiFailure", "AuthFailure", "EntityAlreadyExists", "EntityNotFound",
     "EntityValidationFailed", "IllegalArgument", "IllegalState", "OperationNotAllowed"}

FailureClasses == {"Failure", "InvalidRequest"} \cup SimpleTaxonomy
ErrorClasses == {"Error"} \cup FailureClasses

\* new Error(message)
NewError(message) == [cls |-> "Error", message |-> message, cause |-> Undefined]

\* a plain object literal, which has no message
NewObject == [cls |-> "Object", message |-> "", cause |-> Undefined]

\* Failure's constructor: super(message || "An unknown failure occurred")
NewFailure(cls, message, cause) ==
    [cls |-> cls,
     message |-> IF Truthy(message) THEN message.s ELSE "An unknown failure occurred",
     cause |-> cause]

\* Failure.EMPTY_INSTANCE, the first object created
EMPTY_INSTANCE == NewFailure("Failure", Str("no failure"), Undefined)
EmptyRef == Ref(1)

InstanceOfError(h, v) == v.t = "object" /\ h[v.n].cls \in ErrorClasses
InstanceOfFailure(h, v) == v.t = "object" /\ h[v.n].cls \in FailureClasses

\* failure.isEmpty() and failure.isPresent(), on a reference to a Failure
FailureIsEmpty(v) == v = EmptyRef
FailureIsPresent(v) == ~FailureIsEmpty(v)

\* e.message of a value: a property read, undefined on what has none
MessageOf(h, v) ==
    IF v.t = "object" /\ h[v.n].cls \in ErrorClasses THEN Str(h[v.n].message)
    ELSE Undefined

\* `${v}` for the values a template here can receive
ToStr(v) ==
    CASE v.t = "string" -> v.s
      [] v.t = "undefined" -> "undefined"
      [] v.t = "null" -> "null"
      [] OTHER -> "[object]"

(***************************************************************************)
(* A store is the heap and the Result objects; an outcome is what a call   *)
(* did: the store it left, whether it returned or threw, the value or the  *)
(* Result it returned or the value it threw, and what the user function it *)
(* was given did.                                                          *)
(***************************************************************************)
Store(h, rs, os, ps, ss) ==
    [heap |-> h, results |-> rs, options |-> os, pairs |-> ps, states |-> ss]

AllocObj(st, obj) == [st EXCEPT !.heap = Append(@, obj)]
NewRef(st) == Ref(Len(st.heap) + 1)
AllocRes(st, r) == [st EXCEPT !.results = Append(@, r)]
NewRes(st) == Len(st.results) + 1

Outcome(st, kind, val, res) ==
    [st |-> st, kind |-> kind, val |-> val, res |-> res, opt |-> 0, pair |-> 0, state |-> 0,
     num |-> [hi |-> 0, lo |-> 0],
     invoked |-> 0, fnKind |-> "none", fnVal |-> Undefined, fnRes |-> 0, fnOpt |-> 0]

\* the outcome of a call that ran the user function whose outcome is a
AfterFn(o, a) ==
    [o EXCEPT !.invoked = 1, !.fnKind = a.kind, !.fnVal = a.val, !.fnRes = a.res,
              !.fnOpt = a.opt]

Returned(st, val) == Outcome(st, "returned", val, 0)
ReturnedRes(st, res) == Outcome(st, "returned", Undefined, res)
Threw(st, val) == Outcome(st, "threw", val, 0)

\* throw new IllegalArgument(message)
ThrowIllegalArgument(st, message) ==
    Threw(AllocObj(st, NewFailure("IllegalArgument", Str(message), Undefined)), NewRef(st))

\* Failure.wrap(message, cause) and Failure.ofMessage(message): the store
\* after the allocation; the new Failure is NewRef of the store before it.
FailureWrap(st, message, cause) == AllocObj(st, NewFailure("Failure", message, cause))
FailureOfMessage(st, message) == AllocObj(st, NewFailure("Failure", message, Undefined))

\* an unwrap that follows two links of the cause chain
FailureUnwrapTwice(h, v) ==
    LET c == h[v.n].cause
        d == h[c.n].cause
    IN IF InstanceOfFailure(h, c) /\ FailureIsPresent(c)
       THEN IF InstanceOfFailure(h, d) /\ FailureIsPresent(d) THEN d ELSE c
       ELSE v

\* failure.unwrap()
FailureUnwrap(h, v) ==
    LET c == h[v.n].cause
    IN IF InstanceOfFailure(h, c) /\ FailureIsPresent(c) THEN c ELSE v

(***************************************************************************)
(* User functions: what a caller passes as a mapper, an action or a        *)
(* supplier.  A function is described by what it does when called.         *)
(***************************************************************************)
Fn(kind, v) == [fn |-> kind, v |-> v]
Absent == Fn("absent", Undefined)

\* what a `throw` statement is given: an expression evaluated when it runs
NewErrorExpr(m) == [t |-> "new Error", n |-> 0, s |-> m]
NewFailureExpr(m) == [t |-> "new Failure", n |-> 0, s |-> m]
NewObjectExpr == [t |-> "new Object", n |-> 0, s |-> ""]

\* the store and the value an expression evaluates to
Eval(st, e) ==
    CASE e.t = "new Error" -> [st |-> AllocObj(st, NewError(e.s)), val |-> NewRef(st)]
      [] e.t = "new Failure" ->
            [st |-> AllocObj(st, NewFailure("Failure", Str(e.s), Undefined)), val |-> NewRef(st)]
      [] e.t = "new Object" -> [st |-> AllocObj(st, NewObject), val |-> NewRef(st)]
      [] OTHER -> [st |-> st, val |-> e]

DivisionByZero == "Division by zero is not allowed."

(***************************************************************************)
(* Result                                                                  *)
(***************************************************************************)
\* the private constructor
ResultCtor(failure, value) == [failure |-> failure, value |-> value]

\* Result.ok(value)
Result_ok(st, value) ==
    ReturnedRes(AllocRes(st, ResultCtor(Undefined, value)), NewRes(st))

\* Result.failure(failure)
Result_failure(st, failure) ==
    ReturnedRes(AllocRes(st, ResultCtor(failure, Undefined)), NewRes(st))

\* Result.failureWithMessage(message)
Result_failureWithMessage(st, message) ==
    Result_failure(FailureOfMessage(st, message), NewRef(st))

\* the README's divide(a, b)
Divide(st, a, b) ==
    IF b = 0 THEN Result_failure(FailureOfMessage(st, Str(DivisionByZero)), NewRef(st))
    ELSE Result_ok(st, Num(a \div b))

\* fn(v): the outcome of calling a user function
Apply(st, f, v) ==
    CASE f.fn = "const" -> Returned(st, f.v)
      [] f.fn = "timesTen" -> Returned(st, Num(v.n * 10))
      [] f.fn = "throw" -> LET e == Eval(st, f.v) IN Threw(e.st, e.val)
      [] f.fn = "divideBy" -> Divide(st, v.n, f.v.n)
      [] OTHER -> Returned(st, Undefined)

\* result.isOk() and result.isFailure()
isOk(r) == r.failure = Undefined
isFailure(r) == r.failure # Undefined

\* result.failure()
Result_getFailure(st, r) ==
    IF isOk(r) THEN ThrowIllegalArgument(st, "Cannot get failure from a successful Result.")
    ELSE Returned(st, IF Truthy(r.failure) THEN r.failure ELSE EmptyRef)

\* a presence test that asks whether a value was given, not whether it is truthy
HasValueStrict(r) == r.value # Undefined

\* the test `!this._value` of expect, map and flatMap, and `this._value` of ifOk
HasValue(r) == Truthy(r.value)

\* result.expect(message)
Result_expect(st, r, message) ==
    IF ~HasValue(r)
    THEN Threw(FailureWrap(st, Str(message \o ": " \o ToStr(MessageOf(st.heap, r.failure))),
                           r.failure),
               NewRef(st))
    ELSE Returned(st, r.value)

GetPrefix == "No value present, Result is in a failure state."

\* result.get()
Result_get(st, r) == Result_expect(st, r, GetPrefix)

\* result.ifOk(action)
Result_ifOk(st, r, action) ==
    IF action.fn = "absent"
    THEN ThrowIllegalArgument(st, "Action provided to ifOk is null/undefined")
    ELSE IF HasValue(r)
         THEN LET a == Apply(st, action, r.value)
              IN AfterFn(Outcome(a.st, a.kind, IF a.kind = "threw" THEN a.val ELSE Undefined, 0), a)
         ELSE Returned(st, Undefined)

\* the derivation without its blank checks
CaughtMessageNoTrim(h, error, fallback) ==
    LET m == MessageOf(h, error)
    IN IF InstanceOfError(h, error) /\ Truthy(m) THEN m.s
       ELSE IF error.t = "string" THEN error.s
       ELSE fallback

\* the message the catch blocks of map and flatMap derive from what was thrown
CaughtMessage(h, error, fallback) ==
    LET m == MessageOf(h, error)
    IN IF InstanceOfError(h, error) /\ Truthy(m) /\ Trim(m.s) # "" THEN m.s
       ELSE IF error.t = "string" /\ Trim(error.s) # "" THEN error.s
       ELSE fallback

\* the derivation of map and flatMap, which has no branch for a Failure
OfCaughtMessageAsMap(h, error) ==
    LET m == MessageOf(h, error)
    IN IF InstanceOfError(h, error) /\ Truthy(m) /\ Trim(m.s) # "" THEN m.s
       ELSE IF error.t = "string" /\ Trim(error.s) # "" THEN error.s
       ELSE "An unexpected error occurred during supplier execution."

\* the message the catch block of Result.of derives
OfCaughtMessage(h, error) ==
    LET m == MessageOf(h, error)
    IN IF InstanceOfError(h, error) /\ Truthy(m) /\ Trim(m.s) # "" THEN m.s
       ELSE IF error.t = "string" /\ Trim(error.s) # "" THEN error.s
       ELSE IF InstanceOfFailure(h, error) THEN m.s
       ELSE "An unexpected error occurred during supplier execution."

\* a catch block's return: Result.failure(Failure.wrap(errorMessage, error))
CatchToFailure(st, errorMessage, error) ==
    Result_failure(FailureWrap(st, Str(errorMessage), error), NewRef(st))

\* a short circuit that wraps the held Failure in a new one
ShortCircuitRewrap(st, r) ==
    Result_failure(FailureWrap(st, MessageOf(st.heap, r.failure), r.failure), NewRef(st))

\* the first branch of map and flatMap: the Result has no usable value
ShortCircuit(st, r) ==
    IF Truthy(r.failure) THEN Result_failure(st, r.failure)
    ELSE Result_failure(FailureOfMessage(st, Str("this is never called")), NewRef(st))

MapFallback == "An error occurred during mapping."
FlatMapFallback == "An error occurred during flatMapping."

\* result.map(mapper)
Result_map(st, r, mapper) ==
    IF mapper.fn = "absent"
    THEN ThrowIllegalArgument(st, "Mapper provided to map is null/undefined")
    ELSE IF ~HasValue(r) THEN ShortCircuit(st, r)
    ELSE LET a == Apply(st, mapper, r.value)
         IN IF a.kind = "returned" THEN AfterFn(Result_ok(a.st, a.val), a)
            ELSE AfterFn(CatchToFailure(a.st, CaughtMessage(a.st.heap, a.val, MapFallback), a.val), a)

\* flatMap with the body of map: the mapper's Result wrapped in a new Result
Result_flatMapAsMap(st, r, mapper) ==
    IF mapper.fn = "absent"
    THEN ThrowIllegalArgument(st, "Mapper provided to flatMap is null/undefined")
    ELSE IF ~HasValue(r) THEN ShortCircuit(st, r)
    ELSE LET a == Apply(st, mapper, r.value)
         IN IF a.kind = "returned" THEN AfterFn(Result_ok(a.st, a.val), a)
            ELSE AfterFn(CatchToFailure(a.st, CaughtMessage(a.st.heap, a.val, FlatMapFallback), a.val), a)

\* result.flatMap(mapper)
Result_flatMap(st, r, mapper) ==
    IF mapper.fn = "absent"
    THEN ThrowIllegalArgument(st, "Mapper provided to flatMap is null/undefined")
    ELSE IF ~HasValue(r) THEN ShortCircuit(st, r)
    ELSE LET a == Apply(st, mapper, r.value)
         IN IF a.kind = "returned" THEN AfterFn(ReturnedRes(a.st, a.res), a)
            ELSE AfterFn(CatchToFailure(a.st, CaughtMessage(a.st.heap, a.val, FlatMapFallback), a.val), a)

\* a Result.of whose promise rejects when it is given no supplier
Result_ofRejecting(st, supplier) ==
    IF supplier.fn = "absent"
    THEN [ThrowIllegalArgument(st, "Supplier provided to Result.of is null/undefined")
             EXCEPT !.kind = "rejected"]
    ELSE IF supplier.fn = "async"
    THEN AfterFn(Outcome(st, "awaiting", Undefined, 0), Outcome(st, "promise", Undefined, 0))
    ELSE LET a == Apply(st, supplier, Undefined)
         IN IF a.kind = "returned" THEN AfterFn(Result_ok(a.st, a.val), a)
            ELSE AfterFn(CatchToFailure(a.st, OfCaughtMessage(a.st.heap, a.val), a.val), a)

\* Result.of(supplier) up to its first await: the Result the promise resolves
\* to, or kind "awaiting" when the supplier returned a promise
Result_of(st, supplier) ==
    IF supplier.fn = "absent"
    THEN Result_failure(
             AllocObj(st, NewFailure("IllegalArgument",
                                     Str("Supplier provided to Result.of is null/undefined"),
                                     Undefined)),
             NewRef(st))
    ELSE IF supplier.fn = "async"
    THEN AfterFn(Outcome(st, "awaiting", Undefined, 0), Outcome(st, "promise", Undefined, 0))
    ELSE LET a == Apply(st, supplier, Undefined)
         IN IF a.kind = "returned" THEN AfterFn(Result_ok(a.st, a.val), a)
            ELSE AfterFn(CatchToFailure(a.st, OfCaughtMessage(a.st.heap, a.val), a.val), a)

\* Result.of after its await: the promise fulfilled with a value, or rejected
Result_ofResume(st, settled, v) ==
    IF settled = "fulfilled" THEN Result_ok(st, v)
    ELSE CatchToFailure(st, OfCaughtMessage(st.heap, v), v)

(***************************************************************************)
(* Failure: the rest of the class, and the helpers beside it.              *)
(***************************************************************************)
\* a Failure.empty() that builds a new Failure with the sentinel's content
Failure_emptyFresh(st) == Returned(FailureOfMessage(st, Str("no failure")), NewRef(st))

\* Failure.empty()
Failure_empty(st) == Returned(st, EmptyRef)

\* emptyFailure()
emptyFailure(st) == Failure_empty(st)

\* an equals that compares message and cause whatever the two Failures are
Failure_equalsByContent(h, x, other) ==
    IF other = x THEN TRUE
    ELSE IF ~InstanceOfFailure(h, other) THEN FALSE
    ELSE h[x.n].message = h[other.n].message /\ h[x.n].cause = h[other.n].cause

\* failure.equals(other), for a reference x to a Failure
Failure_equals(h, x, other) ==
    IF other = x THEN TRUE
    ELSE IF ~InstanceOfFailure(h, other) THEN FALSE
    ELSE IF FailureIsEmpty(x) \/ FailureIsEmpty(other)
         THEN FailureIsEmpty(x) /\ FailureIsEmpty(other)
    ELSE h[x.n].message = h[other.n].message /\ h[x.n].cause = h[other.n].cause

Digit(d) == SubSeq("0123456789", d + 1, d + 1)

RECURSIVE NatToStr(_)
NatToStr(k) == IF k < 10 THEN Digit(k) ELSE NatToStr(k \div 10) \o Digit(k % 10)

\* String(v), for the values that reach it
StringOf(v) ==
    CASE v.t = "string" -> v.s
      [] v.t = "number" -> NatToStr(v.n)
      [] v.t = "boolean" -> IF v.n = 1 THEN "true" ELSE "false"
      [] v.t = "undefined" -> "undefined"
      [] v.t = "null" -> "null"
      [] OTHER -> "[object Object]"

\* a || b on values
OrElse(a, b) == IF Truthy(a) THEN a ELSE b

\* Failure.fromCause(cause, message)
Failure_fromCause(st, cause, message) ==
    IF InstanceOfFailure(st.heap, cause) /\ FailureIsPresent(cause) THEN Returned(st, cause)
    ELSE LET effectiveMessage ==
                 OrElse(message,
                        IF InstanceOfError(st.heap, cause) THEN MessageOf(st.heap, cause)
                        ELSE Str(StringOf(OrElse(cause, Str("unknown cause")))))
         IN Returned(AllocObj(st, NewFailure("Failure", effectiveMessage, cause)), NewRef(st))

\* a subclass constructor that stores the message it is given as it is
NewTaxonomyUnchanged(st, cls, message) ==
    Returned(AllocObj(st, [cls |-> cls, message |-> message.s, cause |-> Undefined]),
             NewRef(st))

\* new X(message), for a member X of the taxonomy
NewTaxonomy(st, cls, message) ==
    Returned(AllocObj(st, NewFailure(cls, message, Undefined)), NewRef(st))

\* a Map<string, string[]>: its entries in iteration order
MapOf(entries) == [t |-> "map", n |-> 0, s |-> "", entries |-> entries]

\* the text Array.prototype.join gives one element
JoinText(v) == IF v = Null \/ v = Undefined THEN "" ELSE ToStr(v)

\* values.join(sep)
RECURSIVE Join(_, _)
Join(values, sep) ==
    IF values = <<>> THEN ""
    ELSE IF Len(values) = 1 THEN JoinText(values[1])
    ELSE JoinText(values[1]) \o sep \o Join(Tail(values), sep)

\* ([k, v]) => `${k}: [${v.join(', ')}]`
ReasonEntry(e) == Str(e.k \o ": [" \o Join(e.v, ", ") \o "]")

\* Array.from(reasonsMap.entries()).map(...)
ReasonEntries(entries) == [i \in 1..Len(entries) |-> ReasonEntry(entries[i])]

\* the InvalidRequest object: a Failure that also keeps _reasons
NewInvalidRequest(message, reasonsMap) ==
    LET f == NewFailure("InvalidRequest", Str(message), Undefined)
    IN [cls |-> f.cls, message |-> f.message, cause |-> f.cause, reasons |-> reasonsMap]

\* an InvalidRequest constructor that takes a key string without a reason
InvalidRequestAnyKey(st, keyOrReasons, reason) ==
    IF keyOrReasons.t = "string"
    THEN LET message == "Invalid request for key " \o keyOrReasons.s
                            \o " with reasons " \o ToStr(reason)
             reasonsMap == <<[k |-> keyOrReasons.s, v |-> <<reason>>]>>
         IN Returned(AllocObj(st, NewInvalidRequest(message, reasonsMap)), NewRef(st))
    ELSE IF keyOrReasons.t = "map"
    THEN LET reasonEntries == Join(ReasonEntries(keyOrReasons.entries), "; ")
             message == "Invalid request with reasons {" \o reasonEntries \o "}"
         IN Returned(AllocObj(st, NewInvalidRequest(message, keyOrReasons.entries)),
                     NewRef(st))
    ELSE Threw(AllocObj(st, NewError("Invalid arguments provided to InvalidRequest constructor.")),
               NewRef(st))

\* new InvalidRequest(keyOrReasons, reason)
InvalidRequest(st, keyOrReasons, reason) ==
    IF keyOrReasons.t = "string" /\ reason # Undefined
    THEN LET message == "Invalid request for key " \o keyOrReasons.s
                            \o " with reasons " \o ToStr(reason)
             reasonsMap == <<[k |-> keyOrReasons.s, v |-> <<reason>>]>>
         IN Returned(AllocObj(st, NewInvalidRequest(message, reasonsMap)), NewRef(st))
    ELSE IF keyOrReasons.t = "map"
    THEN LET reasonEntries == Join(ReasonEntries(keyOrReasons.entries), "; ")
             message == "Invalid request with reasons {" \o reasonEntries \o "}"
         IN Returned(AllocObj(st, NewInvalidRequest(message, keyOrReasons.entries)),
                     NewRef(st))
    ELSE Threw(AllocObj(st, NewError("Invalid arguments provided to InvalidRequest constructor.")),
               NewRef(st))

WrapFallback == "An unexpected error occurred."

\* a wrapFailure that takes a non-blank string cause for the message
wrapFailureStringCause(st, message, cause) ==
    LET cm == MessageOf(st.heap, cause)
        finalMessage ==
            IF Truthy(message) /\ Trim(message.s) # "" THEN message
            ELSE IF InstanceOfError(st.heap, cause) /\ Truthy(cm) /\ Trim(cm.s) # "" THEN cm
            ELSE IF cause.t = "string" /\ Trim(cause.s) # "" THEN cause
            ELSE Str(WrapFallback)
    IN Returned(FailureWrap(st, finalMessage, cause), NewRef(st))

\* wrapFailure(message, cause)
wrapFailure(st, message, cause) ==
    LET cm == MessageOf(st.heap, cause)
        finalMessage ==
            IF Truthy(message) /\ Trim(message.s) # "" THEN message
            ELSE IF InstanceOfError(st.heap, cause) /\ Truthy(cm) /\ Trim(cm.s) # "" THEN cm
            ELSE Str(WrapFallback)
    IN Returned(FailureWrap(st, finalMessage, cause), NewRef(st))

\* wrapExistingFailure(message, originalFailure)
wrapExistingFailure(st, message, originalFailure) ==
    IF originalFailure = Null \/ originalFailure = Undefined
    THEN ThrowIllegalArgument(st, "Original failure to wrap cannot be null or undefined.")
    ELSE wrapFailure(st, message, originalFailure)

\* throw new Error(message)
ThrowError(st, message) == Threw(AllocObj(st, NewError(message)), NewRef(st))

\* an async function that throws returns a rejected promise
AsyncThrow(o) == [o EXCEPT !.kind = "rejected"]

\* failure.ifPresent(action)
Failure_ifPresent(st, f, action) ==
    IF action.fn = "absent" THEN ThrowError(st, "Action provided to ifPresent is null/undefined")
    ELSE IF FailureIsPresent(f)
         THEN LET a == Apply(st, action, f)
              IN AfterFn(Outcome(a.st, a.kind, IF a.kind = "threw" THEN a.val ELSE Undefined, 0), a)
         ELSE Returned(st, Undefined)

\* failure.ifEmpty(runnable)
Failure_ifEmpty(st, f, runnable) ==
    IF runnable.fn = "absent" THEN ThrowError(st, "Runnable provided to ifEmpty is null/undefined")
    ELSE IF FailureIsEmpty(f)
         THEN LET a == Apply(st, runnable, Undefined)
              IN AfterFn(Outcome(a.st, a.kind, IF a.kind = "threw" THEN a.val ELSE Undefined, 0), a)
         ELSE Returned(st, Undefined)

\* failure.isA(failureClass): every class of the model extends Failure
Failure_isA(st, f, failureClass) ==
    IF ~Truthy(failureClass) THEN ThrowError(st, "Class provided to isA is null/undefined")
    ELSE Returned(st, Bool(FailureIsPresent(f)
                           /\ (failureClass.s = "Failure" \/ st.heap[f.n].cls = failureClass.s)))

\* a derivation that takes a message or a string as it is, blank or not
RunnableCaughtMessageNoTrim(h, error) ==
    LET m == MessageOf(h, error)
    IN IF InstanceOfError(h, error) /\ Truthy(m) THEN m.s
       ELSE IF error.t = "string" /\ error.s # "" THEN error.s
       ELSE "An unexpected error occurred during runnable execution."

\* the message the catch block of Failure.of derives
RunnableCaughtMessage(h, error) ==
    LET m == MessageOf(h, error)
    IN IF InstanceOfError(h, error) /\ Truthy(m) /\ Trim(m.s) # "" THEN m.s
       ELSE IF error.t = "string" /\ Trim(error.s) # "" THEN error.s
       ELSE "An unexpected error occurred during runnable execution."

\* a Failure.of that does not await the promise its runnable returned
Failure_ofNoAwait(st, runnable) ==
    IF runnable.fn = "absent"
    THEN AsyncThrow(ThrowError(st, "Runnable provided to Failure.of is null/undefined"))
    ELSE IF runnable.fn = "async"
    THEN AfterFn(Returned(st, EmptyRef), Outcome(st, "promise", Undefined, 0))
    ELSE LET a == Apply(st, runnable, Undefined)
         IN IF a.kind = "returned" THEN AfterFn(Returned(a.st, EmptyRef), a)
            ELSE AfterFn(Returned(FailureWrap(a.st, Str(RunnableCaughtMessage(a.st.heap, a.val)), a.val),
                                  NewRef(a.st)), a)

\* Failure.of(runnable) up to its first await: what its promise settles to, or
\* kind "awaiting" when the runnable returned a promise
Failure_of(st, runnable) ==
    IF runnable.fn = "absent"
    THEN AsyncThrow(ThrowError(st, "Runnable provided to Failure.of is null/undefined"))
    ELSE IF runnable.fn = "async"
    THEN AfterFn(Outcome(st, "awaiting", Undefined, 0), Outcome(st, "promise", Undefined, 0))
    ELSE LET a == Apply(st, runnable, Undefined)
         IN IF a.kind = "returned" THEN AfterFn(Returned(a.st, EmptyRef), a)
            ELSE AfterFn(Returned(FailureWrap(a.st, Str(RunnableCaughtMessage(a.st.heap, a.val)), a.val),
                                  NewRef(a.st)), a)

\* Failure.of after its await: the promise fulfilled with a value, or rejected
Failure_ofResume(st, settled, v) ==
    IF settled = "fulfilled" THEN Returned(st, EmptyRef)
    ELSE Returned(FailureWrap(st, Str(RunnableCaughtMessage(st.heap, v)), v), NewRef(st))

(***************************************************************************)
(* Option: an object with one field; a value of null is the empty Option.  *)
(***************************************************************************)
\* the constructor
OptionCtor(value) == [value |-> value]

\* Option.EMPTY_INSTANCE, the first Option created
Option_EMPTY_INSTANCE == OptionCtor(Null)
EmptyOption == 1

AllocOpt(st, o) == [st EXCEPT !.options = Append(@, o)]
NewOpt(st) == Len(st.options) + 1
ReturnedOpt(st, i) == [Outcome(st, "returned", Undefined, 0) EXCEPT !.opt = i]

\* return new Option(value)
NewOption(st, value) == ReturnedOpt(AllocOpt(st, OptionCtor(value)), NewOpt(st))

\* Option.empty()
Option_empty(st) == ReturnedOpt(st, EmptyOption)

\* an Option.ok that refuses every falsy value
Option_okTruthy(st, value) ==
    IF ~Truthy(value)
    THEN ThrowError(st, "Option.of received null or undefined. Use Option.orUndefined instead.")
    ELSE NewOption(st, value)

\* Option.ok(value)
Option_ok(st, value) ==
    IF value = Undefined \/ value = Null
    THEN ThrowError(st, "Option.of received null or undefined. Use Option.orUndefined instead.")
    ELSE NewOption(st, value)

\* an orUndefinedOrNullable that wraps whatever it is given
Option_orUndefinedOrNullableAny(st, value) == NewOption(st, value)

\* Option.orUndefinedOrNullable(value)
Option_orUndefinedOrNullable(st, value) ==
    IF value = Undefined \/ value = Null THEN Option_empty(st) ELSE NewOption(st, value)

\* option.isOk() and option.isEmpty()
Option_isOk(o) == o.value # Null
Option_isEmpty(o) == o.value = Null

\* option.get()
Option_get(st, o) ==
    IF ~Truthy(o.value)
    THEN Threw(FailureOfMessage(st, Str("Attempted to get value from an empty Option.")),
               NewRef(st))
    ELSE Returned(st, o.value)

\* option.getOrElse(defaultValue)
Option_getOrElse(st, o, defaultValue) ==
    Returned(st, IF o.value # Null THEN o.value ELSE defaultValue)

\* mapper(v) for a mapper of flatMap, which returns an Option
ApplyOpt(st, f, v) ==
    CASE f.fn = "some" -> Option_ok(st, f.v)
      [] f.fn = "nullable" -> Option_orUndefinedOrNullable(st, f.v)
      [] f.fn = "none" -> Option_empty(st)
      [] OTHER -> Apply(st, f, v)

\* a map that gives an empty Option when the mapper returns no value
Option_mapNullable(st, o, mapper) ==
    IF o.value # Null
    THEN LET a == Apply(st, mapper, o.value)
         IN IF a.kind = "threw" THEN AfterFn(Threw(a.st, a.val), a)
            ELSE AfterFn(Option_orUndefinedOrNullable(a.st, a.val), a)
    ELSE Option_empty(st)

\* option.map(mapper): what the mapper or Option.ok throws leaves the call
Option_map(st, o, mapper) ==
    IF o.value # Null
    THEN LET a == Apply(st, mapper, o.value)
         IN IF a.kind = "threw" THEN AfterFn(Threw(a.st, a.val), a)
            ELSE AfterFn(Option_ok(a.st, a.val), a)
    ELSE Option_empty(st)

\* option.flatMap(mapper)
Option_flatMap(st, o, mapper) ==
    IF o.value # Null
    THEN LET a == ApplyOpt(st, mapper, o.value) IN AfterFn(a, a)
    ELSE Option_empty(st)

\* catch (error) { return Option.empty() } around an Option.ok
OrEmpty(o) == IF o.kind = "threw" THEN Option_empty(o.st) ELSE o

\* Option.of(supplier) up to its first await
Option_of(st, supplier) ==
    IF supplier.fn = "absent"
    THEN AsyncThrow(ThrowError(st, "Runnable provided to Failure.of is null/undefined"))
    ELSE IF supplier.fn = "async"
    THEN AfterFn(Outcome(st, "awaiting", Undefined, 0), Outcome(st, "promise", Undefined, 0))
    ELSE LET a == Apply(st, supplier, Undefined)
         IN IF a.kind = "returned" THEN AfterFn(OrEmpty(Option_ok(a.st, a.val)), a)
            ELSE AfterFn(Option_empty(a.st), a)

\* Option.of after its await: the promise fulfilled with a value, or rejected
Option_ofResume(st, settled, v) ==
    IF settled = "fulfilled" THEN OrEmpty(Option_ok(st, v)) ELSE Option_empty(st)

(***************************************************************************)
(* Pair: an object with two fields.  A number too wide for 32 bits is kept *)
(* as two parts, hi * 2^16 + lo with lo in 0..2^16-1, so that the          *)
(* arithmetic of hashCode on doubles and its conversions to 32-bit         *)
(* integers are both exact.                                                *)
(***************************************************************************)
\* the constructor
PairCtor(first, second) == [first |-> first, second |-> second]

\* a reference to the Pair created i-th
PairRef(i) == [t |-> "pair", n |-> i, s |-> ""]

\* Pair.of(a, b)
Pair_of(st, a, b) ==
    [Outcome([st EXCEPT !.pairs = Append(@, PairCtor(a, b))], "returned", Undefined, 0)
        EXCEPT !.pair = Len(st.pairs) + 1]

\* pair.getFirst() and pair.getSecond()
Pair_getFirst(p) == p.first
Pair_getSecond(p) == p.second

\* an equals that looks at the first elements only
Pair_equalsFirstOnly(ps, i, other) ==
    IF other = PairRef(i) THEN TRUE
    ELSE IF other.t # "pair" THEN FALSE
    ELSE ps[i].first = ps[other.n].first

\* pair.equals(other), for the Pair created i-th
Pair_equals(ps, i, other) ==
    IF other = PairRef(i) THEN TRUE
    ELSE IF other.t # "pair" THEN FALSE
    ELSE ps[i].first = ps[other.n].first /\ ps[i].second = ps[other.n].second

Half == 65536

\* the number hi * 2^16 + lo, with lo brought into 0..2^16-1
Wide(hi, lo) == [hi |-> hi + (lo \div Half), lo |-> lo % Half]

\* ToInt32 of a wide number, as a wide number
ToInt32(x) ==
    LET h == x.hi % Half
    IN [hi |-> IF h >= Half \div 2 THEN h - Half ELSE h, lo |-> x.lo]

\* a << 5
ShiftLeft5(a) == ToInt32(Wide((a.hi % Half) * 32, a.lo * 32))

\* the position of character c in string str, 0 if it is not there
RECURSIVE IndexOf(_, _)
IndexOf(str, c) ==
    IF Len(str) = 0 THEN 0
    ELSE IF SubSeq(str, Len(str), Len(str)) = c THEN Len(str)
    ELSE IndexOf(SubSeq(str, 1, Len(str) - 1), c)

\* c.charCodeAt(0): digits from 48, capitals from 65, small letters from 97
CharCodeAt(c) ==
    CASE IndexOf("0123456789", c) > 0 -> 47 + IndexOf("0123456789", c)
      [] IndexOf("ABCDEFGHIJKLMNOPQRSTUVWXYZ[", c) > 0 -> 64 + IndexOf("ABCDEFGHIJKLMNOPQRSTUVWXYZ[", c)
      [] IndexOf("abcdefghijklmnopqrstuvwxyz", c) > 0 -> 96 + IndexOf("abcdefghijklmnopqrstuvwxyz", c)
      [] c = "]" -> 93
      [] OTHER -> 32

\* ((a << 5) - a) + code
FoldStep(a, code) ==
    LET sh == ShiftLeft5(a)
    IN Wide(sh.hi - a.hi, sh.lo - a.lo + code)

\* ((a << 5) - a) + b.charCodeAt(0), with the accumulator evaluated once
HashStep(acc, b) == CHOOSE r \in {FoldStep(a, CharCodeAt(b)) : a \in {acc}} : TRUE

\* String(v).split('').reduce(..., 0): the accumulator after the first i characters
RECURSIVE HashFold(_, _)
HashFold(str, i) ==
    IF i = 0 THEN Wide(0, 0) ELSE HashStep(HashFold(str, i - 1), SubSeq(str, i, i))

\* the hash of one element
ElementHash(v) ==
    IF v = Null \/ v = Undefined THEN Wide(0, 0) ELSE HashFold(StringOf(v), Len(StringOf(v)))

\* x ^ y on n-bit numbers that are not negative
RECURSIVE XorBits(_, _, _)
XorBits(x, y, n) ==
    IF n = 0 THEN 0
    ELSE ((x + y) % 2) + 2 * XorBits(x \div 2, y \div 2, n - 1)

\* x ^ y: both operands converted to 32-bit integers, the result one
Xor32(x, y) == ToInt32([hi |-> XorBits(x.hi % Half, y.hi % Half, 16), lo |-> XorBits(x.lo, y.lo, 16)])

\* a combination by addition, which is not confined to 32 bits
CombineBySum(hashA, hashB) ==
    Wide(hashA.hi * 31 + hashB.hi, hashA.lo * 31 + hashB.lo)

\* (hashA * 31) ^ hashB
Combine(hashA, hashB) == Xor32(Wide(hashA.hi * 31, hashA.lo * 31), hashB)

\* pair.hashCode(), in two parts
Pair_hashCode(p) == Combine(ElementHash(p.first), ElementHash(p.second))

\* return of a number kept in two parts
ReturnedNum(st, w) == [Outcome(st, "returned", Undefined, 0) EXCEPT !.num = w]

(***************************************************************************)
(* ActionState: an object literal of up to four properties; a property     *)
(* that is not set reads undefined.                                        *)
(***************************************************************************)
StateLiteral(ok, failed, value, failure) ==
    [isOk |-> ok, isFailure |-> failed, value |-> value, failure |-> failure]

\* return of a new object literal
ReturnedState(st, lit) ==
    [Outcome([st EXCEPT !.states = Append(@, lit)], "returned", Undefined, 0)
        EXCEPT !.state = Len(st.states) + 1]

\* okState(value)
okState(st, value) == ReturnedState(st, StateLiteral(TRUE, FALSE, value, Undefined))

\* initState()
initState(st) == ReturnedState(st, StateLiteral(FALSE, FALSE, Undefined, Undefined))

\* a failureState that takes any Failure
failureStateAny(st, error) ==
    IF error = Null \/ error = Undefined
    THEN ThrowIllegalArgument(st, "Failure object cannot be null or undefined for an error Result.")
    ELSE ReturnedState(st, StateLiteral(FALSE, TRUE, Undefined, error))

\* failureState(error), for a Failure or nothing
failureState(st, error) ==
    IF error = Null \/ error = Undefined
    THEN ThrowIllegalArgument(st, "Failure object cannot be null or undefined for an error Result.")
    ELSE IF FailureIsEmpty(error)
    THEN ThrowIllegalArgument(st,
             "Cannot create a failure Result with an empty Failure object. Use Result.ok() instead.")
    ELSE ReturnedState(st, StateLiteral(FALSE, TRUE, Undefined, error))

(***************************************************************************)
(* The program: a caller builds Failures and one Result, then transforms   *)
(* and inspects it.  `results` lists the Result objects in the order they  *)
(* were created, `steps` the map and flatMap calls that returned, `last`   *)
(* the latest call and what it did, `pending` the call awaiting a promise. *)
(***************************************************************************)
OkValues == {Undefined, Null, Num(0), Num(10), Str(""), Str("data"), Bool(FALSE)}

Throwables ==
    {NewErrorExpr("boom"), NewErrorExpr(""), NewErrorExpr("  "), Str("oops"), Str(" "),
     Undefined, NewObjectExpr, NewFailureExpr("inner"), NewFailureExpr(" "), EmptyRef}

Messages == {"e", ""}
Prefixes == {"Expected value", ""}
Divisors == {0, 2}

Throwers == {Fn("throw", e) : e \in Throwables}
Constants == {Fn("const", v) : v \in {Undefined, Num(0), Str("data")}}

\* the mappers over numbers fit a Result<number>: one holding a number, or one
\* with no usable value, on which no mapper runs
Numeric(v) == v.t = "number" \/ ~Truthy(v)

\* the mappers a caller may pass to map on a Result holding v
MapMappers(v) ==
    {Absent} \cup Constants \cup Throwers
    \cup (IF Numeric(v) THEN {Fn("timesTen", Undefined)} ELSE {})

\* the mappers a caller may pass to flatMap on a Result holding v
FlatMapMappers(v) ==
    {Absent} \cup Throwers
    \cup (IF Numeric(v)
          THEN {Fn("divideBy", Num(b)) : b \in {d \in Divisors : d = 0 \/ v.n % d = 0}}
          ELSE {})

Suppliers ==
    {Absent, Fn("async", Undefined)} \cup {Fn("const", v) : v \in OkValues} \cup Throwers

\* the Failures a caller holds
HeldFailures == {Ref(i) : i \in {j \in DOMAIN heap : heap[j].cls \in FailureClasses}}

NoCall ==
    [op |-> "none", recv |-> 0, arg |-> Undefined, arg2 |-> Undefined, fn |-> Absent,
     kind |-> "none", val |-> Undefined, res |-> 0, opt |-> 0, pair |-> 0, state |-> 0,
     num |-> [hi |-> 0, lo |-> 0],
     invoked |-> 0, fnKind |-> "none", fnVal |-> Undefined, fnRes |-> 0, fnOpt |-> 0]

Init ==
    /\ heap = <<EMPTY_INSTANCE>>
    /\ results = <<>>
    /\ options = <<Option_EMPTY_INSTANCE>>
    /\ pairs = <<>>
    /\ states = <<>>
    /\ steps = <<>>
    /\ last = NoCall
    /\ pending = "none"

Here == Store(heap, results, options, pairs, states)

\* the caller is running: it awaits no promise, and no call has thrown (the
\* caller catches nothing, so an exception that leaves a call ends the run)
Idle == pending = "none" /\ last.kind \notin {"threw", "rejected"}

\* the Result the caller holds: the one created last
Current == Len(results)

\* a call ends: its effects on the store, and the record of it
Commit2(op, recv, arg, arg2, fn, o) ==
    /\ Len(o.st.heap) <= MaxHeap
    /\ Len(o.st.results) <= MaxResults
    /\ heap' = o.st.heap
    /\ Len(o.st.options) <= MaxOptions
    /\ results' = o.st.results
    /\ Len(o.st.pairs) <= MaxPairs
    /\ Len(o.st.states) <= MaxStates
    /\ options' = o.st.options
    /\ pairs' = o.st.pairs
    /\ states' = o.st.states
    /\ last' = [op |-> op, recv |-> recv, arg |-> arg, arg2 |-> arg2, fn |-> fn,
                kind |-> o.kind, val |-> o.val, res |-> o.res, opt |-> o.opt,
                pair |-> o.pair, state |-> o.state, num |-> o.num,
                invoked |-> o.invoked, fnKind |-> o.fnKind, fnVal |-> o.fnVal,
                fnRes |-> o.fnRes, fnOpt |-> o.fnOpt]

\* a call of at most one argument
Commit(op, recv, arg, fn, o) == Commit2(op, recv, arg, Undefined, fn, o)

\* the record of a map or flatMap call that returned
Step(op, recv, o) ==
    [op |-> op, recv |-> recv, res |-> o.res, invoked |-> o.invoked, fnKind |-> o.fnKind]

CallFailureOfMessage ==
    /\ Idle /\ results = <<>> /\ Len(heap) <= MaxHeld
    /\ \E m \in Messages :
          Commit("Failure.ofMessage", 0, Str(m), Absent,
                 Returned(FailureOfMessage(Here, Str(m)), NewRef(Here)))
    /\ UNCHANGED <<steps, pending>>

CallResultOk ==
    /\ Idle /\ results = <<>>
    /\ \E v \in OkValues : Commit("Result.ok", 0, v, Absent, Result_ok(Here, v))
    /\ UNCHANGED <<steps, pending>>

CallResultFailure ==
    /\ Idle /\ results = <<>>
    /\ \E f \in {Undefined, Null} \cup HeldFailures :
          Commit("Result.failure", 0, f, Absent, Result_failure(Here, f))
    /\ UNCHANGED <<steps, pending>>

CallResultFailureWithMessage ==
    /\ Idle /\ results = <<>>
    /\ \E m \in Messages :
          Commit("Result.failureWithMessage", 0, Str(m), Absent,
                 Result_failureWithMessage(Here, Str(m)))
    /\ UNCHANGED <<steps, pending>>

CallResultOf ==
    /\ Idle /\ results = <<>>
    /\ \E f \in Suppliers :
          LET o == Result_of(Here, f)
          IN /\ Commit("Result.of", 0, Undefined, f, o)
             /\ pending' = IF o.kind = "awaiting" THEN "Result.of" ELSE "none"
    /\ UNCHANGED steps

\* the promise the supplier returned settles and Result.of resumes
SettleResultOf ==
    /\ pending = "Result.of"
    /\ \/ \E v \in OkValues :
             Commit("Result.of", 0, v, last.fn,
                    AfterFn(Result_ofResume(Here, "fulfilled", v), Outcome(Here, "fulfilled", v, 0)))
       \/ \E e \in Throwables :
             LET x == Eval(Here, e)
             IN Commit("Result.of", 0, x.val, last.fn,
                       AfterFn(Result_ofResume(x.st, "rejected", x.val),
                               Outcome(x.st, "rejected", x.val, 0)))
    /\ pending' = "none"
    /\ UNCHANGED steps

CallMap ==
    /\ Idle /\ results # <<>>
    /\ LET i == Current
       IN \E f \in MapMappers(results[i].value) :
             LET o == Result_map(Here, results[i], f)
             IN /\ Commit("map", i, Undefined, f, o)
                /\ steps' = IF o.kind = "returned" THEN Append(steps, Step("map", i, o)) ELSE steps
    /\ UNCHANGED pending

CallFlatMap ==
    /\ Idle /\ results # <<>>
    /\ LET i == Current
       IN \E f \in FlatMapMappers(results[i].value) :
             LET o == Result_flatMap(Here, results[i], f)
             IN /\ Commit("flatMap", i, Undefined, f, o)
                /\ steps' = IF o.kind = "returned" THEN Append(steps, Step("flatMap", i, o)) ELSE steps
    /\ UNCHANGED pending

CallExpect ==
    /\ Idle /\ results # <<>>
    /\ \E p \in Prefixes :
          Commit("expect", Current, Str(p), Absent, Result_expect(Here, results[Current], p))
    /\ UNCHANGED <<steps, pending>>

CallGet ==
    /\ Idle /\ results # <<>>
    /\ Commit("get", Current, Undefined, Absent, Result_get(Here, results[Current]))
    /\ UNCHANGED <<steps, pending>>

CallIfOk ==
    /\ Idle /\ results # <<>>
    /\ \E f \in {Absent, Fn("const", Undefined)} :
          Commit("ifOk", Current, Undefined, f, Result_ifOk(Here, results[Current], f))
    /\ UNCHANGED <<steps, pending>>

CallGetFailure ==
    /\ Idle /\ results # <<>>
    /\ Commit("failure", Current, Undefined, Absent, Result_getFailure(Here, results[Current]))
    /\ UNCHANGED <<steps, pending>>

Next ==
    \/ CallFailureOfMessage
    \/ CallResultOk
    \/ CallResultFailure
    \/ CallResultFailureWithMessage
    \/ CallResultOf
    \/ SettleResultOf
    \/ CallMap
    \/ CallFlatMap
    \/ CallExpect
    \/ CallGet
    \/ CallIfOk
    \/ CallGetFailure

Spec == Init /\ [][Next]_vars

TypeOK ==
    /\ Len(heap) \in 1..MaxHeap
    /\ Len(results) \in 0..MaxResults
    /\ Len(options) \in 1..MaxOptions
    /\ Len(pairs) \in 0..MaxPairs
    /\ Len(states) \in 0..MaxStates
    /\ pending \in {"none", "Result.of", "Failure.of", "Option.of"}

(***************************************************************************)
(* A second program: a caller builds Failures from one another and asks    *)
(* them what they are.  `last.recv` is the heap index of the Failure a     *)
(* method was called on.                                                   *)
(***************************************************************************)
SentinelMessage == "no failure"
FailureMessages == {"e", SentinelMessage}

\* what a caller compares a Failure with
Others == HeldFailures \cup {Undefined, Str("e")}

CallEmpty ==
    /\ Idle
    /\ \/ Commit("Failure.empty", 0, Undefined, Absent, Failure_empty(Here))
       \/ Commit("emptyFailure", 0, Undefined, Absent, emptyFailure(Here))
    /\ UNCHANGED <<steps, pending>>

CallOfMessage ==
    /\ Idle /\ Len(heap) < MaxObjects
    /\ \E m \in FailureMessages :
          Commit("Failure.ofMessage", 0, Str(m), Absent,
                 Returned(FailureOfMessage(Here, Str(m)), NewRef(Here)))
    /\ UNCHANGED <<steps, pending>>

CallNewIllegalArgument ==
    /\ Idle /\ Len(heap) < MaxObjects
    /\ Commit("new IllegalArgument", 0, Str("e"), Absent,
              NewTaxonomy(Here, "IllegalArgument", Str("e")))
    /\ UNCHANGED <<steps, pending>>

CallWrap ==
    /\ Idle /\ Len(heap) < MaxObjects
    /\ \E c \in HeldFailures \cup {Str("oops")} :
          Commit2("Failure.wrap", 0, Str("e"), c, Absent,
                  Returned(FailureWrap(Here, Str("e"), c), NewRef(Here)))
    /\ UNCHANGED <<steps, pending>>

CallWrapExistingFailure ==
    /\ Idle /\ Len(heap) < MaxObjects
    /\ \E f \in HeldFailures \cup {Undefined} :
          Commit2("wrapExistingFailure", 0, Str("outer"), f, Absent,
                  wrapExistingFailure(Here, Str("outer"), f))
    /\ UNCHANGED <<steps, pending>>

CallIsEmpty ==
    /\ Idle
    /\ \E f \in HeldFailures :
          Commit("isEmpty", f.n, Undefined, Absent, Returned(Here, Bool(FailureIsEmpty(f))))
    /\ UNCHANGED <<steps, pending>>

CallIsPresent ==
    /\ Idle
    /\ \E f \in HeldFailures :
          Commit("isPresent", f.n, Undefined, Absent, Returned(Here, Bool(FailureIsPresent(f))))
    /\ UNCHANGED <<steps, pending>>

CallEquals ==
    /\ Idle
    /\ \E f \in HeldFailures, other \in Others :
          Commit("equals", f.n, other, Absent,
                 Returned(Here, Bool(Failure_equals(heap, f, other))))
    /\ UNCHANGED <<steps, pending>>

CallUnwrap ==
    /\ Idle
    /\ \E f \in HeldFailures :
          Commit("unwrap", f.n, Undefined, Absent, Returned(Here, FailureUnwrap(heap, f)))
    /\ UNCHANGED <<steps, pending>>

NextFailure ==
    \/ CallEmpty
    \/ CallOfMessage
    \/ CallNewIllegalArgument
    \/ CallWrap
    \/ CallWrapExistingFailure
    \/ CallIsEmpty
    \/ CallIsPresent
    \/ CallEquals
    \/ CallUnwrap

SpecFailure == Init /\ [][NextFailure]_vars

(***************************************************************************)
(* A third program: a caller makes a Failure with each factory, from every *)
(* kind of message and cause, and passes nothing where a function or a     *)
(* class is required.  A call starts while the heap holds at most MaxSetup *)
(* objects.                                                                *)
(***************************************************************************)
GivenMessages == {Undefined, Str(""), Str("  "), Str("e")}
GivenCauses == {Undefined, Str("oops")} \cup HeldFailures

\* what Failure.fromCause is given as its cause
Causes ==
    {Undefined, Null, Num(0), Num(10), Str(""), Str("oops"), Bool(FALSE), Bool(TRUE),
     NewErrorExpr("boom"), NewErrorExpr(""), NewObjectExpr} \cup HeldFailures
CauseMessages == {Undefined, Str(""), Str("given")}

\* what wrapFailure is given
WrapMessages == {Null, Str(""), Str("  "), Str("e")}
WrapCauses ==
    {Null, Str("oops"), Str(" "), NewErrorExpr("boom"), NewErrorExpr("  ")} \cup HeldFailures

Runnables == {Absent, Fn("async", Undefined), Fn("const", Undefined)} \cup Throwers
Actions == {Absent, Fn("const", Undefined)}
Classes == {Undefined, Str("Failure"), Str("IllegalArgument")}

Ready == Idle /\ Len(heap) <= MaxSetup

MakeOfMessage ==
    /\ Ready
    /\ \E m \in GivenMessages :
          Commit("Failure.ofMessage", 0, m, Absent,
                 Returned(FailureOfMessage(Here, m), NewRef(Here)))
    /\ UNCHANGED <<steps, pending>>

MakeWrap ==
    /\ Ready
    /\ \E m \in GivenMessages, c \in GivenCauses :
          Commit2("Failure.wrap", 0, m, c, Absent,
                  Returned(FailureWrap(Here, m, c), NewRef(Here)))
    /\ UNCHANGED <<steps, pending>>

MakeNew ==
    /\ Ready
    /\ \E m \in GivenMessages :
          Commit("new IllegalArgument", 0, m, Absent, NewTaxonomy(Here, "IllegalArgument", m))
    /\ UNCHANGED <<steps, pending>>

MakeFromCause ==
    /\ Ready
    /\ \E c \in Causes, m \in CauseMessages :
          LET x == Eval(Here, c)
          IN Commit2("Failure.fromCause", 0, m, x.val, Absent, Failure_fromCause(x.st, x.val, m))
    /\ UNCHANGED <<steps, pending>>

MakeWrapFailure ==
    /\ Ready
    /\ \E m \in WrapMessages, c \in WrapCauses :
          LET x == Eval(Here, c)
          IN Commit2("wrapFailure", 0, m, x.val, Absent, wrapFailure(x.st, m, x.val))
    /\ UNCHANGED <<steps, pending>>

MakeFailureOf ==
    /\ Ready
    /\ \E f \in Runnables :
          LET o == Failure_of(Here, f)
          IN /\ Commit("Failure.of", 0, Undefined, f, o)
             /\ pending' = IF o.kind = "awaiting" THEN "Failure.of" ELSE "none"
    /\ UNCHANGED steps

\* the promise the runnable returned settles and Failure.of resumes
SettleFailureOf ==
    /\ pending = "Failure.of"
    /\ \/ Commit("Failure.of", 0, Undefined, last.fn,
                 AfterFn(Failure_ofResume(Here, "fulfilled", Undefined),
                         Outcome(Here, "fulfilled", Undefined, 0)))
       \/ \E e \in Throwables :
             LET x == Eval(Here, e)
             IN Commit("Failure.of", 0, x.val, last.fn,
                       AfterFn(Failure_ofResume(x.st, "rejected", x.val),
                               Outcome(x.st, "rejected", x.val, 0)))
    /\ pending' = "none"
    /\ UNCHANGED steps

CallIfPresent ==
    /\ Ready
    /\ \E f \in HeldFailures, a \in Actions :
          Commit("ifPresent", f.n, Undefined, a, Failure_ifPresent(Here, f, a))
    /\ UNCHANGED <<steps, pending>>

CallIfEmpty ==
    /\ Ready
    /\ \E f \in HeldFailures, a \in Actions :
          Commit("ifEmpty", f.n, Undefined, a, Failure_ifEmpty(Here, f, a))
    /\ UNCHANGED <<steps, pending>>

CallIsA ==
    /\ Ready
    /\ \E f \in HeldFailures, c \in Classes :
          Commit("isA", f.n, c, Absent, Failure_isA(Here, f, c))
    /\ UNCHANGED <<steps, pending>>

NextFactory ==
    \/ MakeOfMessage
    \/ MakeWrap
    \/ MakeNew
    \/ MakeFromCause
    \/ MakeWrapFailure
    \/ MakeFailureOf
    \/ SettleFailureOf
    \/ CallIfPresent
    \/ CallIfEmpty
    \/ CallIsA

SpecFactory == Init /\ [][NextFactory]_vars

(***************************************************************************)
(* A fourth program: a caller builds an Option, transforms it and reads    *)
(* the Options it has.  `last.recv` is the index of the Option a method was called on,   *)
(* `last.opt` the index of the Option a call returned.                     *)
(***************************************************************************)
OptionThrowers == {Fn("throw", e) : e \in {NewErrorExpr("boom"), Str("oops"), Undefined}}

OptionMappers(v) ==
    Constants \cup OptionThrowers
    \cup (IF v.t = "number" THEN {Fn("timesTen", Undefined)} ELSE {})

OptionFlatMappers ==
    {Fn("some", Num(0)), Fn("some", Str("data")), Fn("some", Undefined),
     Fn("nullable", Null), Fn("none", Undefined)} \cup OptionThrowers

OptionSuppliers ==
    {Absent, Fn("async", Undefined)} \cup {Fn("const", v) : v \in OkValues} \cup OptionThrowers

Defaults == {Str("d")}

\* the Options a caller holds
HeldOptions == DOMAIN options

\* the caller has made no Option yet, and no supplier of its has thrown
Fresh == Idle /\ Len(options) = 1 /\ Len(heap) = 1

CallOptionEmpty ==
    /\ Idle
    /\ Commit("Option.empty", 0, Undefined, Absent, Option_empty(Here))
    /\ UNCHANGED <<steps, pending>>

CallOptionOk ==
    /\ Fresh
    /\ \E v \in OkValues : Commit("Option.ok", 0, v, Absent, Option_ok(Here, v))
    /\ UNCHANGED <<steps, pending>>

CallOrUndefinedOrNullable ==
    /\ Fresh
    /\ \E v \in OkValues :
          Commit("Option.orUndefinedOrNullable", 0, v, Absent,
                 Option_orUndefinedOrNullable(Here, v))
    /\ UNCHANGED <<steps, pending>>

CallOptionOf ==
    /\ Fresh
    /\ \E f \in OptionSuppliers :
          LET o == Option_of(Here, f)
          IN /\ Commit("Option.of", 0, Undefined, f, o)
             /\ pending' = IF o.kind = "awaiting" THEN "Option.of" ELSE "none"
    /\ UNCHANGED steps

\* the promise the supplier returned settles and Option.of resumes
SettleOptionOf ==
    /\ pending = "Option.of"
    /\ \/ \E v \in OkValues :
             Commit("Option.of", 0, v, last.fn,
                    AfterFn(Option_ofResume(Here, "fulfilled", v), Outcome(Here, "fulfilled", v, 0)))
       \/ \E f \in OptionThrowers :
             LET x == Eval(Here, f.v)
             IN Commit("Option.of", 0, x.val, last.fn,
                       AfterFn(Option_ofResume(x.st, "rejected", x.val),
                               Outcome(x.st, "rejected", x.val, 0)))
    /\ pending' = "none"
    /\ UNCHANGED steps

CallOptionMap ==
    /\ Idle
    /\ \E i \in HeldOptions : \E f \in OptionMappers(options[i].value) :
          Commit("Option.map", i, Undefined, f, Option_map(Here, options[i], f))
    /\ UNCHANGED <<steps, pending>>

CallOptionFlatMap ==
    /\ Idle
    /\ \E i \in HeldOptions, f \in OptionFlatMappers :
          Commit("Option.flatMap", i, Undefined, f, Option_flatMap(Here, options[i], f))
    /\ UNCHANGED <<steps, pending>>

CallOptionGet ==
    /\ Idle
    /\ \E i \in HeldOptions :
          Commit("Option.get", i, Undefined, Absent, Option_get(Here, options[i]))
    /\ UNCHANGED <<steps, pending>>

CallOptionGetOrElse ==
    /\ Idle
    /\ \E i \in HeldOptions, v \in Defaults :
          Commit("Option.getOrElse", i, v, Absent, Option_getOrElse(Here, options[i], v))
    /\ UNCHANGED <<steps, pending>>

CallOptionIsOk ==
    /\ Idle
    /\ \E i \in HeldOptions :
          Commit("Option.isOk", i, Undefined, Absent, Returned(Here, Bool(Option_isOk(options[i]))))
    /\ UNCHANGED <<steps, pending>>

CallOptionIsEmpty ==
    /\ Idle
    /\ \E i \in HeldOptions :
          Commit("Option.isEmpty", i, Undefined, Absent,
                 Returned(Here, Bool(Option_isEmpty(options[i]))))
    /\ UNCHANGED <<steps, pending>>

NextOption ==
    \/ CallOptionEmpty
    \/ CallOptionOk
    \/ CallOrUndefinedOrNullable
    \/ CallOptionOf
    \/ SettleOptionOf
    \/ CallOptionMap
    \/ CallOptionFlatMap
    \/ CallOptionGet
    \/ CallOptionGetOrElse
    \/ CallOptionIsOk
    \/ CallOptionIsEmpty

SpecOption == Init /\ [][NextOption]_vars

(***************************************************************************)
(* A fifth program: a caller builds Pairs and compares and hashes them.    *)
(* `last.recv` is the index of the Pair a method was called on,            *)
(* `last.pair` the index of the Pair a call returned, `last.num` the       *)
(* number hashCode returned.                                               *)
(***************************************************************************)
\* the plain objects there are
PlainObjects == {Ref(i) : i \in {j \in DOMAIN heap : heap[j].cls = "Object"}}

\* what a caller puts into a Pair: a value, an object it has, or a new object
Firsts == {Null, Str("hello"), NewObjectExpr} \cup PlainObjects
Seconds == {Undefined, Num(10)} \cup PlainObjects

HeldPairs == {PairRef(i) : i \in DOMAIN pairs}

CallPairOf ==
    /\ Idle
    /\ \E a \in Firsts, b \in Seconds :
          LET x == Eval(Here, a)
              y == Eval(x.st, b)
          IN Commit2("Pair.of", 0, x.val, y.val, Absent, Pair_of(y.st, x.val, y.val))
    /\ UNCHANGED <<steps, pending>>

CallGetFirst ==
    /\ Idle
    /\ \E p \in HeldPairs :
          Commit("Pair.getFirst", p.n, Undefined, Absent, Returned(Here, Pair_getFirst(pairs[p.n])))
    /\ UNCHANGED <<steps, pending>>

CallGetSecond ==
    /\ Idle
    /\ \E p \in HeldPairs :
          Commit("Pair.getSecond", p.n, Undefined, Absent,
                 Returned(Here, Pair_getSecond(pairs[p.n])))
    /\ UNCHANGED <<steps, pending>>

CallPairEquals ==
    /\ Idle
    /\ \E p \in HeldPairs, other \in HeldPairs \cup {Null, Str("not a pair")} :
          Commit("Pair.equals", p.n, other, Absent,
                 Returned(Here, Bool(Pair_equals(pairs, p.n, other))))
    /\ UNCHANGED <<steps, pending>>

CallHashCode ==
    /\ Idle
    /\ \E p \in HeldPairs :
          Commit("Pair.hashCode", p.n, Undefined, Absent,
                 ReturnedNum(Here, Pair_hashCode(pairs[p.n])))
    /\ UNCHANGED <<steps, pending>>

NextPair ==
    \/ CallPairOf
    \/ CallGetFirst
    \/ CallGetSecond
    \/ CallPairEquals
    \/ CallHashCode

SpecPair == Init /\ [][NextPair]_vars

(***************************************************************************)
(* A sixth program: a caller makes Failures and builds ActionStates.       *)
(* `last.state` is the index of the state a call returned.                 *)
(***************************************************************************)
CallOkState ==
    /\ Idle
    /\ \E v \in OkValues : Commit("okState", 0, v, Absent, okState(Here, v))
    /\ UNCHANGED <<steps, pending>>

CallInitState ==
    /\ Idle
    /\ Commit("initState", 0, Undefined, Absent, initState(Here))
    /\ UNCHANGED <<steps, pending>>

CallFailureState ==
    /\ Idle
    /\ \E f \in {Undefined, Null} \cup HeldFailures :
          Commit("failureState", 0, f, Absent, failureState(Here, f))
    /\ UNCHANGED <<steps, pending>>

NextState ==
    \/ CallOfMessage
    \/ CallNewIllegalArgument
    \/ CallOkState
    \/ CallInitState
    \/ CallFailureState

SpecState == Init /\ [][NextState]_vars

(***************************************************************************)
(* A seventh program: a caller constructs members of the taxonomy.         *)
(* `last.arg2` of a "new" call is the name of the class constructed.       *)
(***************************************************************************)
TaxonomyMessages == {Str(""), Str("  "), Str("e"), Str("no failure")}

TwoReasons ==
    <<[k |-> "email", v |-> <<Str("bad"), Str("taken")>>], [k |-> "age", v |-> <<Str("low")>>]>>
TwoReasonsReversed == <<TwoReasons[2], TwoReasons[1]>>

KeysOrReasons ==
    {Str("email"), Str(""), Undefined, Num(5),
     MapOf(<<>>), MapOf(TwoReasons), MapOf(TwoReasonsReversed)}
Reasons == {Undefined, Str("bad"), Str("")}

CallNew ==
    /\ Ready
    /\ \E cls \in SimpleTaxonomy, m \in TaxonomyMessages :
          Commit2("new", 0, m, Str(cls), Absent, NewTaxonomy(Here, cls, m))
    /\ UNCHANGED <<steps, pending>>

CallNewInvalidRequest ==
    /\ Ready
    /\ \E k \in KeysOrReasons, reason \in Reasons :
          Commit2("new InvalidRequest", 0, k, reason, Absent, InvalidRequest(Here, k, reason))
    /\ UNCHANGED <<steps, pending>>

NextTaxonomy ==
    \/ CallNew
    \/ CallNewInvalidRequest

SpecTaxonomy == Init /\ [][NextTaxonomy]_vars

(***************************************************************************)
(* An eighth program: a caller passes thunks to Failure.of, Option.of and  *)
(* Result.of.  The promise a thunk returned settles in a step of its own,  *)
(* at a time the call does not choose; the continuation of the call is a   *)
(* job the settlement enqueues, and the job queue runs every job enqueued. *)
(* While the call waits `last.kind` is "awaiting", and `last.fnKind` is     *)
(* "promise" until the promise settles.                                    *)
(***************************************************************************)
AsyncCalls == {"Result.of", "Failure.of", "Option.of"}

\* the promise a thunk returned settles: it fulfils with a value or rejects
\* with what the thunk's body threw; room is left for what the call builds
PromiseSettles ==
    /\ pending \in AsyncCalls /\ last.kind = "awaiting" /\ last.fnKind = "promise"
    /\ \/ \E v \in OkValues :
             /\ last' = [last EXCEPT !.fnKind = "fulfilled", !.fnVal = v]
             /\ heap' = heap
       \/ \E e \in Throwables :
             LET x == Eval(Here, e)
             IN /\ Len(x.st.heap) < MaxHeap
                /\ last' = [last EXCEPT !.fnKind = "rejected", !.fnVal = x.val]
                /\ heap' = x.st.heap
    /\ UNCHANGED <<results, options, pairs, states, steps, pending>>

\* the promise has settled and the call has not resumed yet
Settled(op) ==
    pending = op /\ last.kind = "awaiting" /\ last.fnKind \in {"fulfilled", "rejected"}

\* the continuation of Result.of after its await
ResumeResultOf ==
    /\ Settled("Result.of")
    /\ Commit("Result.of", 0, last.arg, last.fn,
              AfterFn(Result_ofResume(Here, last.fnKind, last.fnVal),
                      Outcome(Here, last.fnKind, last.fnVal, 0)))
    /\ pending' = "none"
    /\ UNCHANGED steps

\* the continuation of Failure.of after its await
ResumeFailureOf ==
    /\ Settled("Failure.of")
    /\ Commit("Failure.of", 0, last.arg, last.fn,
              AfterFn(Failure_ofResume(Here, last.fnKind, last.fnVal),
                      Outcome(Here, last.fnKind, last.fnVal, 0)))
    /\ pending' = "none"
    /\ UNCHANGED steps

\* the continuation of Option.of after its await
ResumeOptionOf ==
    /\ Settled("Option.of")
    /\ Commit("Option.of", 0, last.arg, last.fn,
              AfterFn(Option_ofResume(Here, last.fnKind, last.fnVal),
                      Outcome(Here, last.fnKind, last.fnVal, 0)))
    /\ pending' = "none"
    /\ UNCHANGED steps

\* the caller starts a call with nothing built by an earlier one
Quiet == Fresh /\ results = <<>>

StartResultOf == Quiet /\ CallResultOf
StartFailureOf == Quiet /\ MakeFailureOf
StartOptionOf == Quiet /\ CallOptionOf

NextAsync ==
    \/ StartResultOf
    \/ StartFailureOf
    \/ StartOptionOf
    \/ PromiseSettles
    \/ ResumeResultOf
    \/ ResumeFailureOf
    \/ ResumeOptionOf

\* a job in the queue is run: the continuation of a settled promise is not
\* left waiting for ever
SpecAsync ==
    /\ Init /\ [][NextAsync]_vars
    /\ WF_vars(ResumeResultOf) /\ WF_vars(ResumeFailureOf) /\ WF_vars(ResumeOptionOf)

(***************************************************************************)
(* Vocabulary of the claims.                                               *)
(***************************************************************************)
\* the call recorded in `last` is `op` on the Result it was made on
Receiver == results[last.recv]
Returns == results[last.res]

Absentish(v) == v \in {Undefined, Null}
IsIllegalArgument(v) == v.t = "object" /\ heap[v.n].cls = "IllegalArgument"
PresentFailure(v) == InstanceOfFailure(heap, v) /\ v # EmptyRef

\* a string with nothing but whitespace in it
IsBlank(x) == \A i \in 1..Len(x) : SubSeq(x, i, i) \in {" ", "\t", "\n"}

\* an Error (or subclass) instance whose message is not blank
ErrorWithMessage(v) ==
    v.t = "object" /\ heap[v.n].cls \in {"Error", "Failure", "IllegalArgument"}
    /\ ~IsBlank(heap[v.n].message)
NonBlankString(v) == v.t = "string" /\ ~IsBlank(v.s)

FalsySuccess == {Num(0), Str(""), Bool(FALSE)}

\* C1: Result.failure(failureObj) throws an IllegalArgument, and constructs no
\* Result, whenever failureObj is null, undefined or the Failure empty sentinel.
C1_FailureRejectsAbsentOrEmpty ==
    (last.op = "Result.failure" /\ (Absentish(last.arg) \/ last.arg = EmptyRef))
    => /\ last.kind = "threw"
       /\ IsIllegalArgument(last.val)
       /\ results = <<>>

\* C2: every Result holds exactly one of a success value or a Failure: one with
\* isOk() true has a present value, one with isFailure() true has a present,
\* non-sentinel Failure and no value.
C2_ExactlyOneOfValueOrFailure ==
    \A i \in DOMAIN results :
        LET r == results[i]
        IN /\ isOk(r) => ~Absentish(r.value)
           /\ isFailure(r) => (PresentFailure(r.failure) /\ r.value = Undefined)

\* C3: in a chain of map and flatMap calls, from a failure Result holding a present
\* Failure f on, every Result is a failure whose failure() is f itself, and no
\* mapper is invoked.
C3_ShortCircuitKeepsFailure ==
    /\ \A k \in DOMAIN steps : steps[k].recv = k /\ steps[k].res = k + 1
    /\ \A i \in DOMAIN results :
          (isFailure(results[i]) /\ PresentFailure(results[i].failure)) =>
             \A j \in i..Len(results) :
                /\ isFailure(results[j])
                /\ Result_getFailure(Here, results[j]).kind = "returned"
                /\ Result_getFailure(Here, results[j]).val = results[i].failure
                /\ (j > i /\ j - 1 \in DOMAIN steps) => steps[j - 1].invoked = 0
    /\ (last.op \in {"map", "flatMap"} /\ last.kind = "returned"
        /\ isFailure(Receiver) /\ PresentFailure(Receiver.failure))
       => (last.invoked = 0 /\ isFailure(Returns) /\ Returns.failure = Receiver.failure)

C3_Witness ==
    /\ Len(steps) = 2
    /\ {steps[1].op, steps[2].op} = {"map", "flatMap"}
    /\ PresentFailure(results[1].failure)
    /\ results[3].failure = results[1].failure
    /\ last.fn.fn = "throw"

\* C4: for a mapper that does not throw, r.map(fn) is a success Result holding
\* fn(value) whenever r.isOk(), and a Result holding r's failure whenever
\* r.isFailure().
C4_MapKeepsSuccess ==
    (last.op = "map" /\ last.fn.fn \in {"const", "timesTen"}) =>
       /\ last.kind = "returned"
       /\ isOk(Receiver) =>
             /\ isOk(Returns)
             /\ last.invoked = 1
             /\ Returns.value = last.fnVal
       /\ isFailure(Receiver) => Returns.failure = Receiver.failure

PrefixOfLast == IF last.op = "get" THEN GetPrefix ELSE last.arg.s

\* C6: on a failure Result holding Failure f, expect(p) throws a new present
\* Failure with message p + ": " + f.message and cause f, whose unwrap() is f;
\* get() is expect with the fixed prefix; on a success Result with a truthy value
\* both return the value.
C6_ExpectThrowsWrappedFailure ==
    (last.op \in {"expect", "get"}) =>
       /\ (isFailure(Receiver) /\ InstanceOfFailure(heap, Receiver.failure)) =>
             /\ last.kind = "threw"
             /\ PresentFailure(last.val)
             /\ last.val.n = Len(heap)
             /\ heap[last.val.n].message
                   = PrefixOfLast \o ": " \o heap[Receiver.failure.n].message
             /\ heap[last.val.n].cause = Receiver.failure
             /\ FailureUnwrap(heap, last.val) = Receiver.failure
       /\ (isOk(Receiver) /\ Truthy(Receiver.value)) =>
             (last.kind = "returned" /\ last.val = Receiver.value)

\* C7: flatMap on a success Result with a truthy value returns the very Result
\* fn(value) produced when fn does not throw; once a step has produced a failure,
\* later steps are not executed and the final Result holds that Failure, so a
\* division by zero ends the divide chain with exactly its message.
C7_FlatMapReturnsMapperResult ==
    /\ (last.op = "flatMap" /\ isOk(Receiver) /\ Truthy(Receiver.value)
        /\ last.fnKind = "returned") =>
          (last.kind = "returned" /\ last.invoked = 1 /\ last.res = last.fnRes)
    /\ (last.op = "flatMap" /\ isOk(Receiver) /\ Truthy(Receiver.value)
        /\ last.fn = Fn("divideBy", Num(0))) =>
          (isFailure(Returns) /\ heap[Returns.failure.n].message = DivisionByZero)
    /\ \A k \in DOMAIN steps :
          (steps[k].op = "flatMap" /\ steps[k].fnKind = "returned"
           /\ isFailure(results[steps[k].res])) =>
             \A j \in (k + 1)..Len(steps) :
                /\ steps[j].invoked = 0
                /\ results[steps[j].res].failure = results[steps[k].res].failure
                /\ heap[results[steps[j].res].failure.n].message
                      = heap[results[steps[k].res].failure.n].message

C7_Witness ==
    /\ Len(steps) = 2
    /\ results[1] = ResultCtor(Undefined, Num(10))
    /\ steps[1].op = "flatMap" /\ steps[2].op = "flatMap"
    /\ results[2] = ResultCtor(Undefined, Num(5))
    /\ last.fn = Fn("divideBy", Num(0))
    /\ isFailure(results[3])
    /\ heap[results[3].failure.n].message = DivisionByZero

C7_WitnessSkipped ==
    /\ Len(steps) = 2
    /\ steps[1].op = "flatMap" /\ steps[1].fnKind = "returned" /\ isFailure(results[2])
    /\ steps[2].op = "flatMap" /\ steps[2].invoked = 0
    /\ last.fn = Fn("divideBy", Num(2))

\* the message a map, flatMap or Result.of call is to give the Failure it builds
\* from a thrown value e, by the order of the claims
DerivedMessage(e, failureBranch, fallback) ==
    IF ErrorWithMessage(e) THEN heap[e.n].message
    ELSE IF NonBlankString(e) THEN e.s
    ELSE IF failureBranch /\ InstanceOfFailure(heap, e) THEN heap[e.n].message
    ELSE fallback

\* C8: when the mapper of map or flatMap throws e on a Result with a truthy value,
\* the call returns a failure Result whose Failure has cause e and the message
\* e.message (an Error with a non-blank message), else e (a non-blank string),
\* else the method's fixed fallback.
C8_MapperThrowIsCaught ==
    (last.op \in {"map", "flatMap"} /\ last.fnKind = "threw") =>
       /\ last.kind = "returned"
       /\ isFailure(Returns)
       /\ InstanceOfFailure(heap, Returns.failure)
       /\ heap[Returns.failure.n].cause = last.fnVal
       /\ heap[Returns.failure.n].message
             = DerivedMessage(last.fnVal, FALSE,
                              IF last.op = "map" THEN "An error occurred during mapping."
                              ELSE "An error occurred during flatMapping.")

C8_Witness ==
    /\ last.op = "map" /\ last.fnKind = "threw"
    /\ last.fnVal.t = "object" /\ heap[last.fnVal.n] = NewError("  ")
    /\ heap[Returns.failure.n].message = "An error occurred during mapping."

C8_WitnessString ==
    /\ last.op = "flatMap" /\ last.fnKind = "threw"
    /\ last.fnVal = Str("oops")
    /\ heap[Returns.failure.n].message = "oops"

\* C9: Result.of(supplier) resolves to a failure Result whose Failure has cause e
\* and the message e.message (an Error with a non-blank message), else e (a
\* non-blank string), else e.message (a Failure), else the fallback, when the
\* supplier throws e or its promise rejects with e; and to a success Result
\* holding v when the supplier yields v, directly or through its promise.
C9_ResultOfCaptures ==
    (last.op = "Result.of") =>
       /\ last.fnKind \in {"threw", "rejected"} =>
             /\ last.kind = "returned"
             /\ isFailure(Returns)
             /\ InstanceOfFailure(heap, Returns.failure)
             /\ heap[Returns.failure.n].cause = last.fnVal
             /\ heap[Returns.failure.n].message
                   = DerivedMessage(last.fnVal, TRUE,
                                    "An unexpected error occurred during supplier execution.")
       /\ last.fnKind \in {"returned", "fulfilled"} =>
             /\ last.kind = "returned"
             /\ isOk(Returns)
             /\ Returns.value = last.fnVal
       /\ last.fnKind = "promise" => (last.kind = "awaiting" /\ pending = "Result.of")

C9_Witness ==
    /\ last.op = "Result.of" /\ last.fnKind = "threw"
    /\ last.fnVal.t = "object" /\ heap[last.fnVal.n] = NewError("boom")
    /\ heap[Returns.failure.n].message = "boom"

C9_WitnessRejected ==
    /\ last.op = "Result.of" /\ last.fnKind = "rejected"
    /\ InstanceOfFailure(heap, last.fnVal) /\ heap[last.fnVal.n].message = " "
    /\ heap[Returns.failure.n].message = " "

\* C10: failure() on a Result with isFailure() true returns the Failure it holds,
\* the reference given at construction; on a Result with isOk() true it throws an
\* IllegalArgument; isOk() and isFailure() are complements.
C10_FailureAccessor ==
    /\ \A i \in DOMAIN results : isOk(results[i]) <=> ~isFailure(results[i])
    /\ (last.op = "failure") =>
          /\ isFailure(Receiver) => (last.kind = "returned" /\ last.val = Receiver.failure)
          /\ isOk(Receiver) => (last.kind = "threw" /\ IsIllegalArgument(last.val))

(***************************************************************************)
(* Claims about Failure, under SpecFailure.                                *)
(***************************************************************************)
\* the Failure a method was called on, and whether a value is a Failure other
\* than the first object created
Self == Ref(last.recv)
IsFailureObject(v) == v.t = "object" /\ heap[v.n].cls \in FailureClasses
NotFirst(v) == IsFailureObject(v) /\ v.n # 1
SameContent(i, j) == heap[i].message = heap[j].message /\ heap[i].cause = heap[j].cause

\* C11: Failure.empty() and emptyFailure() return the same instance every
\* time, the one created first, and allocate nothing; isEmpty() is true for
\* that instance and false for every other Failure, whatever its content and
\* class; isPresent() is the negation of isEmpty().
C11_OneSentinel ==
    /\ last.op \in {"Failure.empty", "emptyFailure"} =>
          /\ last.kind = "returned" /\ last.val = Ref(1)
          /\ heap[1] = [cls |-> "Failure", message |-> SentinelMessage, cause |-> Undefined]
    /\ last.op = "isEmpty" => last.val = Bool(last.recv = 1)
    /\ last.op = "isPresent" => last.val = Bool(last.recv # 1)

\* isEmpty() answered false on a Failure with the sentinel's message and no cause
C11_Witness ==
    /\ last.op = "isEmpty" /\ last.recv # 1 /\ last.val = Bool(FALSE)
    /\ SameContent(last.recv, 1)

\* isPresent() answered true on a taxonomy subtype
C11_WitnessSubtype ==
    /\ last.op = "isPresent" /\ heap[last.recv].cls = "IllegalArgument" /\ last.val = Bool(TRUE)

\* what the claim says x.equals(y) is, for Failures x and y
EqualsAsClaimed(x, y) ==
    IF x = y THEN TRUE
    ELSE IF x.n = 1 \/ y.n = 1 THEN x.n = 1 /\ y.n = 1
    ELSE SameContent(x.n, y.n)

\* C12: for Failures x and y, x.equals(x) is true; if either is the sentinel
\* the answer is true only when both are; otherwise the answer is true iff
\* the messages are equal and the causes identical, whatever the classes;
\* y.equals(x) gives the same answer.
C12_Equals ==
    (last.op = "equals" /\ IsFailureObject(last.arg)) =>
        /\ last.val = Bool(EqualsAsClaimed(Self, last.arg))
        /\ Failure_equals(heap, last.arg, Self) = EqualsAsClaimed(Self, last.arg)

\* two Failures of different classes with the same message and cause are equal
C12_Witness ==
    /\ last.op = "equals" /\ IsFailureObject(last.arg) /\ last.val = Bool(TRUE)
    /\ heap[last.recv].cls # heap[last.arg.n].cls

\* two Failures whose causes are distinct objects of the same content differ
C12_WitnessCauseIdentity ==
    /\ last.op = "equals" /\ NotFirst(last.arg) /\ last.recv # 1 /\ last.val = Bool(FALSE)
    /\ heap[last.recv].message = heap[last.arg.n].message
    /\ LET c == heap[last.recv].cause
           d == heap[last.arg.n].cause
       IN c.t = "object" /\ d.t = "object" /\ c # d /\ heap[c.n] = heap[d.n]

\* a Failure with the sentinel's content is not equal to the sentinel
C12_WitnessSentinel ==
    /\ last.op = "equals" /\ last.arg = Ref(1) /\ last.recv # 1 /\ last.val = Bool(FALSE)
    /\ SameContent(last.recv, 1)

\* C15: unwrap() returns the cause when the cause is a Failure other than the
\* sentinel, and the receiver in every other case; it never follows a second
\* link; wrapExistingFailure(m, f).unwrap() is f for a present f.
C15_UnwrapOneLink ==
    /\ last.op = "unwrap" =>
          LET c == heap[last.recv].cause
          IN last.val = IF NotFirst(c) THEN c ELSE Self
    /\ (last.op = "wrapExistingFailure" /\ NotFirst(last.arg2)) =>
          /\ last.kind = "returned"
          /\ FailureUnwrap(heap, last.val) = last.arg2

\* unwrap() on a Failure whose cause has a present Failure as its own cause
C15_Witness ==
    /\ last.op = "unwrap"
    /\ LET c == heap[last.recv].cause
       IN NotFirst(c) /\ NotFirst(heap[c.n].cause) /\ last.val = c

\* unwrap() on a Failure whose cause is the sentinel returns the receiver
C15_WitnessSentinelCause ==
    /\ last.op = "unwrap" /\ heap[last.recv].cause = Ref(1) /\ last.val = Self

\* wrapExistingFailure wrapped a present Failure
C15_WitnessWrapExisting ==
    /\ last.op = "wrapExistingFailure" /\ NotFirst(last.arg2) /\ last.kind = "returned"

(***************************************************************************)
(* Claims about the factories of Failure, under SpecFactory.               *)
(***************************************************************************)
Factories ==
    {"Failure.ofMessage", "Failure.wrap", "new IllegalArgument", "Failure.fromCause", "Failure.of"}
DefaultMessage == "An unknown failure occurred"
NoMessage(m) == m \in {Undefined, Null} \/ (m.t = "string" /\ IsBlank(m.s))

\* C13: the present Failure a factory or constructor returns has a message
\* that is not blank; ofMessage, wrap and a taxonomy constructor given no
\* message, an empty one or a whitespace-only one use the default message.
C13_MessageNeverBlank ==
    (last.op \in Factories /\ last.kind = "returned" /\ PresentFailure(last.val)) =>
        /\ ~IsBlank(heap[last.val.n].message)
        /\ (last.op \in {"Failure.ofMessage", "Failure.wrap", "new IllegalArgument"}
            /\ NoMessage(last.arg)) => heap[last.val.n].message = DefaultMessage

\* an empty message counts as none, as in the constructor
OrDefault(x) == IF x = "" THEN DefaultMessage ELSE x

\* the message the claim gives the Failure built from cause c and message m
FromCauseMessage(c, m) ==
    IF m # Undefined THEN m.s
    ELSE IF c.t = "object" /\ heap[c.n].cls \in ErrorClasses THEN OrDefault(heap[c.n].message)
    ELSE IF ~Absentish(c) THEN OrDefault(StringOf(c))
    ELSE "unknown cause"

\* C14: Failure.fromCause(cause, message) returns cause itself when cause is a
\* present Failure, and allocates nothing; otherwise it returns a new Failure
\* whose cause is cause and whose message is the message given, else
\* cause.message for an Error, else the stringified cause, else "unknown
\* cause" when cause is undefined or null.
C14_FromCause ==
    (last.op = "Failure.fromCause" /\ last.arg # Str("")) =>
        /\ last.kind = "returned"
        /\ IF PresentFailure(last.arg2) THEN last.val = last.arg2
           ELSE /\ last.val = Ref(Len(heap)) /\ last.val # last.arg2
                /\ heap[last.val.n].cls = "Failure"
                /\ heap[last.val.n].cause = last.arg2
                /\ heap[last.val.n].message = FromCauseMessage(last.arg2, last.arg)

RunnableFallback == "An unexpected error occurred during runnable execution."

\* C16: Failure.of(thunk) gives the empty sentinel when the thunk returns or
\* its promise fulfils; when the thunk throws e or its promise rejects with e
\* it gives a new present Failure with cause e and the message e.message (an
\* Error with a non-blank message), else e (a non-blank string), else the
\* fallback; the promise of Failure.of given a thunk never rejects.
C16_FailureOfCaptures ==
    (last.op = "Failure.of" /\ last.fn # Absent) =>
        /\ last.kind \in {"returned", "awaiting"}
        /\ (last.kind = "returned" /\ last.fnKind \in {"returned", "fulfilled"}) =>
              last.val = Ref(1)
        /\ (last.kind = "returned" /\ last.fnKind \in {"threw", "rejected"}) =>
              /\ PresentFailure(last.val) /\ last.val = Ref(Len(heap))
              /\ heap[last.val.n].cause = last.fnVal
              /\ heap[last.val.n].message = DerivedMessage(last.fnVal, FALSE, RunnableFallback)

\* the promise of the thunk rejected with an Error whose message is blank
C16_Witness ==
    /\ last.op = "Failure.of" /\ last.fnKind = "rejected" /\ last.kind = "returned"
    /\ last.fnVal.t = "object" /\ heap[last.fnVal.n].cls = "Error"
    /\ heap[last.fnVal.n].message = "  "
    /\ heap[last.val.n].message = RunnableFallback

\* the thunk threw a string, and the promise of the thunk fulfilled
C16_WitnessString ==
    /\ last.op = "Failure.of" /\ last.fnKind = "threw" /\ last.fnVal = Str("oops")
    /\ heap[last.val.n].message = "oops"
C16_WitnessFulfilled ==
    /\ last.op = "Failure.of" /\ last.fnKind = "fulfilled" /\ last.val = Ref(1)

\* the calls that misuse the API
Misuse ==
    \/ /\ last.op \in {"ifPresent", "ifEmpty", "Failure.of", "Option.of", "Result.of",
                       "ifOk", "ifFailure", "map", "flatMap"}
       /\ last.fn = Absent
    \/ last.op \in {"isA", "Option.ok"} /\ Absentish(last.arg)
    \/ last.op = "failure" /\ isOk(results[last.recv])

\* C17: a call that misuses the API throws an IllegalArgument, and throws it
\* itself: it returns no value and no promise.
C17_MisuseThrowsIllegalArgument ==
    Misuse => (last.kind = "threw" /\ IsIllegalArgument(last.val))

(***************************************************************************)
(* Claims about Option, under SpecOption.                                  *)
(***************************************************************************)
\* the Option a method was called on, and the Option a call returned
OptionReceiver == options[last.recv]
OptionReturned == options[last.opt]

\* C18: Option.ok(v) throws for v null or undefined and builds no Option;
\* Option.orUndefinedOrNullable(v) returns an empty Option exactly when v is
\* null or undefined; every Option there is holds a value or null, never
\* undefined, isEmpty() is true of it iff it holds no value, and isOk() is
\* the negation of isEmpty().
C18_OptionInvariant ==
    /\ (last.op = "Option.ok" /\ Absentish(last.arg)) =>
          (last.kind = "threw" /\ last.opt = 0 /\ Len(options) = 1)
    /\ last.op = "Option.orUndefinedOrNullable" =>
          /\ last.kind = "returned"
          /\ Option_isEmpty(OptionReturned) <=> Absentish(last.arg)
    /\ \A i \in DOMAIN options :
          /\ options[i].value # Undefined
          /\ Option_isEmpty(options[i]) <=> Absentish(options[i].value)
          /\ Option_isOk(options[i]) <=> ~Option_isEmpty(options[i])
    /\ last.op = "Option.isEmpty" => last.val = Bool(Absentish(OptionReceiver.value))
    /\ last.op = "Option.isOk" => last.val = Bool(~Absentish(OptionReceiver.value))

\* map with a mapper that returns undefined throws and builds no Option
C18_Witness ==
    /\ last.op = "Option.map" /\ last.fnKind = "returned" /\ last.fnVal = Undefined
    /\ last.kind = "threw" /\ last.opt = 0

\* isEmpty() answered false on an Option that holds a falsy value
C18_WitnessFalsy ==
    /\ last.op = "Option.isEmpty" /\ OptionReceiver.value \in FalsySuccess
    /\ last.val = Bool(FALSE)

EmptyGetMessage == "Attempted to get value from an empty Option."

\* C19: get() returns the held value of every Option whose isOk() is true,
\* and throws a present Failure with the message about an empty Option on an
\* empty one; getOrElse(d) returns the held value when there is one and d
\* when the Option is empty.
C19_OptionGet ==
    /\ last.op = "Option.get" =>
          IF Option_isOk(OptionReceiver)
          THEN last.kind = "returned" /\ last.val = OptionReceiver.value
          ELSE /\ last.kind = "threw" /\ PresentFailure(last.val)
               /\ heap[last.val.n].message = EmptyGetMessage
    /\ last.op = "Option.getOrElse" =>
          /\ last.kind = "returned"
          /\ last.val = IF Option_isOk(OptionReceiver) THEN OptionReceiver.value ELSE last.arg

\* C20: Option.of(supplier) gives a present Option holding v when the
\* supplier returns v or its promise fulfils with v, for every v other than
\* null and undefined, the falsy ones included; it gives an empty Option when
\* the supplier throws or its promise rejects; its promise never rejects.
C20_OptionOfCaptures ==
    (last.op = "Option.of" /\ last.fn # Absent) =>
        /\ last.kind \in {"returned", "awaiting"}
        /\ (last.kind = "returned" /\ last.fnKind \in {"returned", "fulfilled"}
            /\ ~Absentish(last.fnVal)) =>
              /\ last.opt \in DOMAIN options
              /\ Option_isOk(OptionReturned) /\ OptionReturned.value = last.fnVal
        /\ (last.kind = "returned" /\ last.fnKind \in {"threw", "rejected"}) =>
              /\ last.opt \in DOMAIN options
              /\ Option_isEmpty(OptionReturned)

\* the promise of the supplier fulfilled with a falsy value
C20_Witness ==
    /\ last.op = "Option.of" /\ last.fnKind = "fulfilled" /\ last.fnVal \in FalsySuccess
    /\ last.kind = "returned" /\ OptionReturned.value = last.fnVal

\* the promise of the supplier rejected
C20_WitnessRejected ==
    /\ last.op = "Option.of" /\ last.fnKind = "rejected" /\ last.kind = "returned"
    /\ last.opt = EmptyOption

\* C21: map(fn) on an empty Option returns an empty Option and does not call
\* fn; on a present Option it calls fn and returns a new Option holding what
\* fn returned, or throws when fn returned null or undefined.  flatMap(fn) on
\* an empty Option returns an empty Option and does not call fn; on a present
\* Option it returns the very Option fn returned.
C21_OptionMapFlatMap ==
    /\ (last.op \in {"Option.map", "Option.flatMap"} /\ Option_isEmpty(OptionReceiver)) =>
          /\ last.kind = "returned" /\ last.invoked = 0
          /\ Option_isEmpty(OptionReturned)
    /\ (last.op = "Option.map" /\ ~Option_isEmpty(OptionReceiver)) =>
          /\ last.invoked = 1
          /\ (last.fnKind = "returned" /\ Absentish(last.fnVal)) =>
                (last.kind = "threw" /\ last.opt = 0)
          /\ (last.fnKind = "returned" /\ ~Absentish(last.fnVal)) =>
                /\ last.kind = "returned" /\ last.opt = Len(options) /\ last.opt # last.recv
                /\ OptionReturned.value = last.fnVal
    /\ (last.op = "Option.flatMap" /\ ~Option_isEmpty(OptionReceiver)) =>
          /\ last.invoked = 1
          /\ last.fnKind = "returned" => (last.kind = "returned" /\ last.opt = last.fnOpt)

\* map called its mapper on an Option holding a falsy value
C21_Witness ==
    /\ last.op = "Option.map" /\ OptionReceiver.value \in FalsySuccess
    /\ last.invoked = 1 /\ last.kind = "returned" /\ OptionReturned.value = last.fnVal

\* flatMap returned the empty Option its mapper returned, and skipped its
\* mapper on an empty Option
C21_WitnessFlatMap ==
    /\ last.op = "Option.flatMap" /\ last.invoked = 1 /\ last.fnOpt = EmptyOption
    /\ last.opt = EmptyOption
C21_WitnessSkipped ==
    /\ last.op = "Option.flatMap" /\ Option_isEmpty(OptionReceiver) /\ last.invoked = 0

(***************************************************************************)
(* Claims about Pair, under SpecPair.                                      *)
(***************************************************************************)
PairReceiver == pairs[last.recv]

\* C22: Pair.of(a, b) returns a new Pair whose getFirst() is a and whose
\* getSecond() is b; p.equals(q) is true iff q is a Pair whose first element
\* is identical to p's and whose second element is identical to p's, and
\* false for an argument that is not a Pair.
C22_PairEquals ==
    /\ last.op = "Pair.of" =>
          /\ last.kind = "returned" /\ last.pair = Len(pairs)
          /\ Pair_getFirst(pairs[last.pair]) = last.arg
          /\ Pair_getSecond(pairs[last.pair]) = last.arg2
    /\ last.op = "Pair.getFirst" => last.val = PairReceiver.first
    /\ last.op = "Pair.getSecond" => last.val = PairReceiver.second
    /\ last.op = "Pair.equals" =>
          last.val = Bool(/\ last.arg.t = "pair"
                          /\ PairReceiver.first = pairs[last.arg.n].first
                          /\ PairReceiver.second = pairs[last.arg.n].second)

\* two Pairs whose first elements are distinct objects of the same content,
\* and whose second elements are the same, are not equal
C22_Witness ==
    /\ last.op = "Pair.equals" /\ last.arg.t = "pair" /\ last.val = Bool(FALSE)
    /\ PairReceiver.second = pairs[last.arg.n].second
    /\ LET a == PairReceiver.first
           c == pairs[last.arg.n].first
       IN a.t = "object" /\ c.t = "object" /\ a # c /\ heap[a.n] = heap[c.n]

\* two distinct Pairs of the same elements are equal; null is equal to no Pair
C22_WitnessEqual ==
    /\ last.op = "Pair.equals" /\ last.arg.t = "pair" /\ last.arg.n # last.recv
    /\ last.val = Bool(TRUE)
C22_WitnessNull ==
    /\ last.op = "Pair.equals" /\ last.arg = Null /\ last.val = Bool(FALSE)

\* a number in two parts that is a signed 32-bit integer
InInt32(w) == w.hi \in -(Half \div 2)..(Half \div 2 - 1) /\ w.lo \in 0..(Half - 1)

\* "hello" folds to 99162322 = 1513 * 2^16 + 6354, and "10" to 1567
HelloHash == [hi |-> 1513, lo |-> 6354]

\* C23: hashCode() returns a signed 32-bit integer; an element that is null
\* or undefined counts 0, so that a Pair of two such elements hashes to 0 and
\* Pair(null, "hello") to the fold of "hello"; Pair("hello", 10) hashes to
\* (99162322 * 31) ^ 1567 = -1220933775; two Pairs that equals() finds equal
\* have the same hashCode.
C23_PairHashCode ==
    /\ last.op = "Pair.hashCode" =>
          /\ last.kind = "returned" /\ InInt32(last.num)
          /\ (Absentish(PairReceiver.first) /\ Absentish(PairReceiver.second)) =>
                last.num = [hi |-> 0, lo |-> 0]
          /\ PairReceiver = [first |-> Null, second |-> Str("hello")] => last.num = HelloHash
          /\ PairReceiver = [first |-> Str("hello"), second |-> Num(10)] =>
                last.num.hi * Half + last.num.lo = -1220933775
    /\ (last.op = "Pair.equals" /\ last.val = Bool(TRUE)) =>
          Pair_hashCode(PairReceiver) = Pair_hashCode(pairs[last.arg.n])

\* the hash of a Pair whose first element is an object and whose product by
\* 31 does not fit 32 bits
C23_Witness ==
    /\ last.op = "Pair.hashCode" /\ PairReceiver.first.t = "object"
    /\ last.num.hi < 0

\* the hash of Pair("hello", 10)
C23_WitnessHello ==
    /\ last.op = "Pair.hashCode"
    /\ PairReceiver = [first |-> Str("hello"), second |-> Num(10)]

C24_WitnessCauseMessage ==
    /\ last.op = "wrapFailure" /\ last.arg = Str("  ") /\ ErrorWithMessage(last.arg2)
    /\ heap[last.val.n].message = heap[last.arg2.n].message

\* C25: wrapFailure with a null message and a cause that is a non-blank
\* string returns a Failure whose message is that string.
C25_WrapFailureStringCause ==
    (last.op = "wrapFailure" /\ last.arg = Null /\ NonBlankString(last.arg2)) =>
        (last.kind = "returned" /\ heap[last.val.n].message = last.arg2.s)

(***************************************************************************)
(* Claims about ActionState, under SpecState.                              *)
(***************************************************************************)
StateReturned == states[last.state]

\* C26: failureState(f) throws an IllegalArgument and builds nothing when f
\* is absent or the empty sentinel, and otherwise returns a state with isOk
\* false, isFailure true and failure f; okState(v) returns a state with isOk
\* true, isFailure false and value v for every v; initState() returns a state
\* with both false; no state has both true, and the failure of a state with
\* isFailure true is a present Failure.
C26_ActionState ==
    /\ last.op = "failureState" =>
          IF Absentish(last.arg) \/ last.arg = Ref(1)
          THEN last.kind = "threw" /\ IsIllegalArgument(last.val) /\ last.state = 0
          ELSE /\ last.kind = "returned" /\ last.state = Len(states)
               /\ ~StateReturned.isOk /\ StateReturned.isFailure
               /\ StateReturned.failure = last.arg
    /\ last.op = "okState" =>
          /\ last.kind = "returned" /\ last.state = Len(states)
          /\ StateReturned.isOk /\ ~StateReturned.isFailure /\ StateReturned.value = last.arg
    /\ last.op = "initState" =>
          /\ last.kind = "returned" /\ last.state = Len(states)
          /\ ~StateReturned.isOk /\ ~StateReturned.isFailure
    /\ \A i \in DOMAIN states :
          /\ ~(states[i].isOk /\ states[i].isFailure)
          /\ states[i].isFailure => PresentFailure(states[i].failure)

\* failureState refused the empty sentinel
C26_Witness ==
    /\ last.op = "failureState" /\ last.arg = Ref(1)
    /\ last.kind = "threw" /\ IsIllegalArgument(last.val)

\* okState took undefined, and failureState a taxonomy subtype
C26_WitnessOkUndefined ==
    /\ last.op = "okState" /\ last.arg = Undefined /\ StateReturned.isOk
C26_WitnessSubtype ==
    /\ last.op = "failureState" /\ last.kind = "returned"
    /\ IsIllegalArgument(StateReturned.failure)

\* the object a constructor call returned
Constructed == heap[last.val.n]

\* C27, as stated: for each simple taxonomy member X and every message string
\* m, new X(m) is a present Failure of class X whose message is exactly m and
\* which has no cause.
C27_MessageUnchanged ==
    last.op = "new" =>
        /\ last.kind = "returned"
        /\ PresentFailure(last.val)
        /\ Constructed.cls = last.arg2.s
        /\ Constructed.message = last.arg.s
        /\ Constructed.cause = Undefined

\* C27, amended: for each simple taxonomy member X and every message string m,
\* new X(m) is a present Failure of class X with no cause; its message is
\* exactly m when m is not the empty string, and "An unknown failure occurred"
\* when m is the empty string.
C27_MessageUnchangedUnlessEmpty ==
    last.op = "new" =>
        /\ last.kind = "returned"
        /\ PresentFailure(last.val)
        /\ Constructed.cls = last.arg2.s
        /\ Constructed.message =
               IF last.arg.s = "" THEN "An unknown failure occurred" ELSE last.arg.s
        /\ Constructed.cause = Undefined

C27_Witness ==
    /\ last.op = "new"
    /\ last.arg2 = Str("EntityValidationFailed")
    /\ last.arg = Str("")
    /\ Constructed.message = "An unknown failure occurred"

C27_WitnessUnchanged ==
    /\ last.op = "new"
    /\ last.arg2 = Str("ApiFailure")
    /\ last.arg = Str("  ")
    /\ Constructed.message = "  "

\* the reason list the constructed object keeps under a key, <<>> for none
RECURSIVE ReasonsUnder(_, _)
ReasonsUnder(reasonsMap, key) ==
    IF reasonsMap = <<>> THEN <<>>
    ELSE IF reasonsMap[Len(reasonsMap)].k = key THEN reasonsMap[Len(reasonsMap)].v
    ELSE ReasonsUnder(SubSeq(reasonsMap, 1, Len(reasonsMap) - 1), key)

\* "<key>: [<reasons joined by ', '>]" of the entries, joined by "; " in
\* order, built from the last entry backwards
RECURSIVE ReasonsJoined(_)
ReasonsJoined(list) ==
    IF list = <<>> THEN ""
    ELSE IF Len(list) = 1 THEN list[1].s
    ELSE ReasonsJoined(SubSeq(list, 1, Len(list) - 1)) \o ", " \o list[Len(list)].s

RECURSIVE EntriesJoined(_)
EntriesJoined(entries) ==
    IF entries = <<>> THEN ""
    ELSE LET e == entries[Len(entries)]
             text == e.k \o ": [" \o ReasonsJoined(e.v) \o "]"
         IN IF Len(entries) = 1 THEN text
            ELSE EntriesJoined(SubSeq(entries, 1, Len(entries) - 1)) \o "; " \o text

\* C28: new InvalidRequest(key, reason) has the message "Invalid request for
\* key <key> with reasons <reason>" and keeps the mapping {key -> [reason]};
\* new InvalidRequest(mapping) has the message "Invalid request with reasons {"
\* + the entries as "<key>: [<reasons joined by ', '>]" joined by "; " in the
\* mapping's iteration order + "}" and keeps that mapping; every other argument
\* shape, a key string with no reason among them, throws and constructs nothing.
C28_InvalidRequest ==
    last.op = "new InvalidRequest" =>
        IF last.arg.t = "string" /\ last.arg2.t = "string"
        THEN /\ last.kind = "returned"
             /\ PresentFailure(last.val)
             /\ Constructed.cls = "InvalidRequest"
             /\ Constructed.message =
                    "Invalid request for key " \o last.arg.s \o " with reasons " \o last.arg2.s
             /\ Len(Constructed.reasons) = 1
             /\ ReasonsUnder(Constructed.reasons, last.arg.s) = <<last.arg2>>
        ELSE IF last.arg.t = "map"
        THEN /\ last.kind = "returned"
             /\ PresentFailure(last.val)
             /\ Constructed.cls = "InvalidRequest"
             /\ Constructed.message =
                    "Invalid request with reasons {" \o EntriesJoined(last.arg.entries) \o "}"
             /\ Constructed.reasons = last.arg.entries
        ELSE /\ last.kind = "threw"
             /\ last.val = Ref(Len(heap))
             /\ heap[last.val.n].cls = "Error"

C28_Witness ==
    /\ last.op = "new InvalidRequest"
    /\ last.arg = MapOf(TwoReasons)
    /\ Constructed.message = "Invalid request with reasons {email: [bad, taken]; age: [low]}"

C28_WitnessReversed ==
    /\ last.op = "new InvalidRequest"
    /\ last.arg = MapOf(TwoReasonsReversed)
    /\ Constructed.message = "Invalid request with reasons {age: [low]; email: [bad, taken]}"

C28_WitnessKeyReason ==
    /\ last.op = "new InvalidRequest"
    /\ last.arg = Str("email")
    /\ last.arg2 = Str("bad")
    /\ Constructed.message = "Invalid request for key email with reasons bad"
    /\ Constructed.reasons = <<[k |-> "email", v |-> <<Str("bad")>>]>>

C28_WitnessNoReason ==
    /\ last.op = "new InvalidRequest"
    /\ last.arg = Str("email")
    /\ last.arg2 = Undefined
    /\ last.kind = "threw"
    /\ heap[last.val.n].cls = "Error"

C28_WitnessEmptyMapping ==
    /\ last.op = "new InvalidRequest"
    /\ last.arg = MapOf(<<>>)
    /\ Constructed.message = "Invalid request with reasons {}"

\* the call resolved with what corresponds to the settlement of the promise:
\* the value it fulfilled with, or a capture of what it rejected with
ResolvedAsSettled ==
    /\ last.kind = "returned"
    /\ last.op = "Result.of" =>
          IF last.fnKind = "fulfilled"
          THEN isOk(Returns) /\ Returns.value = last.fnVal
          ELSE isFailure(Returns) /\ heap[Returns.failure.n].cause = last.fnVal
    /\ last.op = "Failure.of" =>
          IF last.fnKind = "fulfilled"
          THEN last.val = EmptyRef
          ELSE PresentFailure(last.val) /\ heap[last.val.n].cause = last.fnVal
    /\ last.op = "Option.of" =>
          IF last.fnKind = "fulfilled" /\ ~Absentish(last.fnVal)
          THEN Option_isOk(OptionReturned) /\ OptionReturned.value = last.fnVal
          ELSE Option_isEmpty(OptionReturned)

\* a thunk is called once and within the call, what it throws is captured at
\* once, and a call whose thunk returned a promise waits for the promise
InvokedWithinCall ==
    (last.op \in AsyncCalls /\ last.fn # Absent) =>
        /\ last.invoked = 1
        /\ last.fn.fn # "async" =>
              /\ pending = "none" /\ last.kind = "returned"
              /\ last.fnKind = (IF last.fn.fn = "throw" THEN "threw" ELSE "returned")
        /\ last.fn.fn = "async" =>
              /\ last.kind \in {"awaiting", "returned"}
              /\ last.fnKind \in {"promise", "fulfilled", "rejected"}
              /\ last.fnKind = "promise" => (last.kind = "awaiting" /\ pending = last.op)
              /\ last.kind = "awaiting" <=> pending = last.op
              /\ last.kind = "returned" <=> pending = "none"

\* a step taken while a call waits: nothing is produced before the promise
\* settles, and the step that completes the call resolves it as settled
WaitsForSettlement ==
    pending \in AsyncCalls =>
        /\ last.fnKind = "promise" =>
              /\ pending' = pending /\ last'.kind = "awaiting"
              /\ results' = results /\ options' = options
        /\ pending' # pending =>
              /\ Settled(pending)
              /\ pending' = "none"
              /\ last'.op = pending /\ last'.fn = last.fn
              /\ last'.fnKind = last.fnKind /\ last'.fnVal = last.fnVal
              /\ ResolvedAsSettled'

\* C29: for each of Failure.of, Option.of and Result.of called with a present
\* thunk, the thunk is invoked exactly once and within the call, and what it
\* throws synchronously is captured in the same turn; when the thunk returns a
\* promise the call produces nothing before that promise settles, no step
\* completes the call before it, and once the promise has settled, fulfilled
\* or rejected, the call eventually resolves with the corresponding value.
C29_AsyncCapture ==
    /\ []InvokedWithinCall
    /\ [][WaitsForSettlement]_vars
    /\ \A op \in AsyncCalls :
          Settled(op) ~> (pending = "none" /\ last.op = op /\ ResolvedAsSettled)

C29_Witness ==
    /\ pending = "none" /\ last.op = "Result.of" /\ last.fn = Fn("async", Undefined)
    /\ last.fnKind = "rejected" /\ last.fnVal = Str("oops")
    /\ ResolvedAsSettled

C29_WitnessSettled == Settled("Failure.of") /\ last.fnKind = "rejected"

C29_WitnessWaiting ==
    pending = "Option.of" /\ last.kind = "awaiting" /\ last.fnKind = "promise"

C29_WitnessFulfilled ==
    /\ pending = "none" /\ last.op = "Option.of" /\ last.fn = Fn("async", Undefined)
    /\ last.fnKind = "fulfilled" /\ last.fnVal = Num(0)
    /\ ResolvedAsSettled

\* C30: the promise of Result.of never rejects, whatever the argument: it
\* waits or resolves to a Result; given no supplier it resolves to a failure
\* Result holding an IllegalArgument; and every failure Result it resolves to
\* holds a Failure other than the empty sentinel.
C30_ResultOfNeverRejects ==
    last.op = "Result.of" =>
        /\ last.kind \in {"returned", "awaiting"}
        /\ last.kind = "returned" =>
              /\ last.res \in DOMAIN results
              /\ isFailure(Returns) => PresentFailure(Returns.failure)
              /\ last.fnKind \in {"threw", "rejected"} => isFailure(Returns)
        /\ last.fn = Absent =>
              /\ last.kind = "returned" /\ last.invoked = 0
              /\ isFailure(Returns)
              /\ IsIllegalArgument(Returns.failure)

C30_Witness ==
    /\ last.op = "Result.of" /\ last.fn = Absent /\ last.kind = "returned"
    /\ heap[Returns.failure.n].cls = "IllegalArgument"
    /\ heap[Returns.failure.n].message = "Supplier provided to Result.of is null/undefined"

\* the promise of the supplier rejected with the empty sentinel
C30_WitnessSentinel ==
    /\ last.op = "Result.of" /\ last.fnKind = "rejected" /\ last.fnVal = EmptyRef
    /\ last.kind = "returned"
    /\ Returns.failure # EmptyRef /\ heap[Returns.failure.n].cause = EmptyRef

\* the supplier threw undefined
C30_WitnessUndefined ==
    /\ last.op = "Result.of" /\ last.fnKind = "threw" /\ last.fnVal = Undefined
    /\ last.kind = "returned" /\ isFailure(Returns)

====
